---- MODULE Spec2Model ----
(***************************************************************************)
(* The B24 SPA 1106 sync worker: its entry point main, which parses a      *)
(* Pub/Sub message and dispatches it; the three child services (Podstawy   *)
(* pobytu 1042, Uprawnienia do pracy 1046, Procesy legalizacyjne 1110)     *)
(* that converge the link/date array fields of the Sprawy (1106) records   *)
(* of a contact, with the stage classifier they use; and the Contact Field *)
(* Mirror, which copies passport fields of a contact onto its Sprawy.      *)
(*                                                                         *)
(* Strings the code inspects character by character (stage identifiers,    *)
(* stringified ids, raw event names) are sequences of one-character        *)
(* strings; strings the code only tests for emptiness and equality (dates, *)
(* field names, event labels) are TLA+ strings.                            *)
(***************************************************************************)
EXTENDS Integers, Sequences, FiniteSets, TLC

\* eng: the service under study; children, parents, passports: the CRM; last: what
\* the worker did last; running: the invocations of the worker in progress
VARIABLES eng, children, parents, passports, last, running

vars == <<eng, children, parents, passports, last, running>>

-----------------------------------------------------------------------------
(* Bounds *)

\* number of child ids of the collection under reconciliation
NumChildren == 2

\* number of ':'-separated parts of the stage identifiers of SpecStage
MaxParts == 3

ChildIdPool == <<10, 9, 2, 100>>

ChildIds == {ChildIdPool[i] : i \in 1..NumChildren}

ParentIds == {1, 2}

Contacts == {1, 2}

\* contactId of a record that has none
NoContact == 0

-----------------------------------------------------------------------------
(* Python string primitives *)

LowerCase == <<"a","b","c","d","e","f","g","h","i","j","k","l","m",
               "n","o","p","q","r","s","t","u","v","w","x","y","z">>

UpperCase == <<"A","B","C","D","E","F","G","H","I","J","K","L","M",
               "N","O","P","Q","R","S","T","U","V","W","X","Y","Z">>

DigitChars == <<"0","1","2","3","4","5","6","7","8","9">>

\* str.upper() on one character
UpperChar(ch) ==
    IF \E i \in 1..Len(LowerCase) : LowerCase[i] = ch
    THEN UpperCase[CHOOSE i \in 1..Len(LowerCase) : LowerCase[i] = ch]
    ELSE ch

\* str.upper()
upper(s) == [i \in 1..Len(s) |-> UpperChar(s[i])]

RECURSIVE split(_, _)
\* str.split(sep) for a one-character separator
split(s, sep) ==
    IF \E i \in 1..Len(s) : s[i] = sep
    THEN LET i == CHOOSE k \in 1..Len(s) :
                     s[k] = sep /\ \A j \in 1..(k - 1) : s[j] # sep
         IN  <<SubSeq(s, 1, i - 1)>> \o split(SubSeq(s, i + 1, Len(s)), sep)
    ELSE <<s>>

RECURSIVE str(_)
\* str(int): the decimal digits of a non-negative id
str(n) ==
    IF n < 10 THEN <<DigitChars[n + 1]>>
    ELSE str(n \div 10) \o <<DigitChars[(n % 10) + 1]>>

\* code point order of the characters ids are made of
Ord(ch) == CHOOSE i \in 1..Len(DigitChars) : DigitChars[i] = ch

\* Python's < on two strings: lexicographic by code point, a proper prefix first
StrLess(a, b) ==
    \/ /\ Len(a) < Len(b)
       /\ \A i \in 1..Len(a) : a[i] = b[i]
    \/ \E k \in 1..Len(a) :
          /\ k <= Len(b)
          /\ \A i \in 1..(k - 1) : a[i] = b[i]
          /\ Ord(a[k]) < Ord(b[k])

RECURSIVE InsertSorted(_, _)
InsertSorted(x, s) ==
    IF s = <<>> THEN <<x>>
    ELSE IF StrLess(Head(s), x) \/ Head(s) = x
         THEN <<Head(s)>> \o InsertSorted(x, Tail(s))
         ELSE <<x>> \o s

RECURSIVE sorted(_)
\* sorted(list of str)
sorted(s) ==
    IF s = <<>> THEN <<>>
    ELSE InsertSorted(s[Len(s)], sorted(SubSeq(s, 1, Len(s) - 1)))

\* the set of elements of a list
Elems(s) == {s[i] : i \in 1..Len(s)}

\* all orderings of a finite set, as sequences without repetition
Orderings(S) ==
    {s \in [1..Cardinality(S) -> S] : \A i, j \in 1..Cardinality(S) : s[i] = s[j] => i = j}

-----------------------------------------------------------------------------
(* Stage classifier: one copy per service module *)

\* a stage identifier that is a string
Stage(s) == [null |-> FALSE, str |-> s]

\* stageId None
NoneStage == [null |-> TRUE, str |-> <<>>]

pobyt_FINAL_STAGES ==
    { <<"S","U","C","C","E","S","S">>, <<"F","A","I","L">>,
      <<"F","A","I","L","U","R","E">>, <<"L","O","S","E">>,
      <<"A","P","O","L","O","G","Y">> }

praca_FINAL_STAGES ==
    { <<"S","U","C","C","E","S","S">>, <<"F","A","I","L">>,
      <<"F","A","I","L","U","R","E">>, <<"L","O","S","E">>,
      <<"A","P","O","L","O","G","Y">> }

procesy_FINAL_STAGES ==
    { <<"S","U","C","C","E","S","S">>, <<"F","A","I","L">>,
      <<"F","A","I","L","U","R","E">>, <<"L","O","S","E">>,
      <<"A","P","O","L","O","G","Y">> }

\* a classifier that looks at the part after the first ':' instead of the last
is_active_stage_first_part(stage_id) ==
    IF stage_id.null \/ stage_id.str = <<>> THEN TRUE
    ELSE LET parts == split(stage_id.str, ":")
         IN  IF Len(parts) < 2 THEN TRUE
             ELSE upper(parts[2]) \notin pobyt_FINAL_STAGES

\* a classifier that forgets to uppercase the stage name
is_active_stage_no_upper(stage_id) ==
    IF stage_id.null \/ stage_id.str = <<>> THEN TRUE
    ELSE LET parts == split(stage_id.str, ":")
         IN  IF Len(parts) < 2 THEN TRUE
             ELSE parts[Len(parts)] \notin pobyt_FINAL_STAGES

pobyt_is_active_stage(stage_id) ==
    IF stage_id.null \/ stage_id.str = <<>> THEN TRUE
    ELSE LET parts == split(stage_id.str, ":")
         IN  IF Len(parts) < 2 THEN TRUE
             ELSE LET stage_name == upper(parts[Len(parts)])
                  IN  stage_name \notin pobyt_FINAL_STAGES

praca_is_active_stage(stage_id) ==
    IF stage_id.null \/ stage_id.str = <<>> THEN TRUE
    ELSE LET parts == split(stage_id.str, ":")
         IN  IF Len(parts) < 2 THEN TRUE
             ELSE LET stage_name == upper(parts[Len(parts)])
                  IN  stage_name \notin praca_FINAL_STAGES

procesy_is_active_stage(stage_id) ==
    IF stage_id.null \/ stage_id.str = <<>> THEN TRUE
    ELSE LET parts == split(stage_id.str, ":")
         IN  IF Len(parts) < 2 THEN TRUE
             ELSE LET stage_name == upper(parts[Len(parts)])
                  IN  stage_name \notin procesy_FINAL_STAGES

\* the classifier the service of engine e calls
is_active_stage(e, stage_id) ==
    CASE e = "pobyt"   -> pobyt_is_active_stage(stage_id)
      [] e = "praca"   -> praca_is_active_stage(stage_id)
      [] e = "procesy" -> procesy_is_active_stage(stage_id)

-----------------------------------------------------------------------------
(* Configuration of the worker and of the three services *)

SPA_SPRAWY == 1106

SPA_PODSTAWY_POBYTU == 1042

SPA_PRACA == 1046

SPA_PROCESY == 1110

FIELD_SPRAWY_PODSTAWY == "ufCrm38_1768737959"

FIELD_SPRAWY_PODSTAWY_DATES == "ufCrm38_1768738011252"

FIELD_SPRAWY_PRACA == "ufCrm38_1768738112"

field_praca_dates == "ufCrm38_1768738327769"

FIELD_SPRAWY_PROCESY == "ufCrm38_1768738413"

Engines == {"pobyt", "praca", "procesy"}

\* the services that also keep a date array
DatedEngines == {"pobyt", "praca"}

\* entity type id of the child collection of engine e
spa_child(e) ==
    CASE e = "pobyt"   -> SPA_PODSTAWY_POBYTU
      [] e = "praca"   -> SPA_PRACA
      [] e = "procesy" -> SPA_PROCESY

\* a configuration in which Praca is given the link field of Podstawy pobytu
field_link_shared(e) ==
    CASE e = "pobyt"   -> FIELD_SPRAWY_PODSTAWY
      [] e = "praca"   -> FIELD_SPRAWY_PODSTAWY
      [] e = "procesy" -> FIELD_SPRAWY_PROCESY

\* the Sprawy field holding the child ids of engine e
field_link(e) ==
    CASE e = "pobyt"   -> FIELD_SPRAWY_PODSTAWY
      [] e = "praca"   -> FIELD_SPRAWY_PRACA
      [] e = "procesy" -> FIELD_SPRAWY_PROCESY

\* the Sprawy field holding the dates of engine e (pobyt and praca only)
field_dates(e) ==
    CASE e = "pobyt" -> FIELD_SPRAWY_PODSTAWY_DATES
      [] e = "praca" -> field_praca_dates

\* the Contact Field Mirror's mappings: passport number, passport expiry date
FIELD_MAPPINGS ==
    <<[contact_field |-> "UF_CRM_1758997725285", sprawy_field |-> "ufCrm38_1764509760429"],
      [contact_field |-> "UF_CRM_1760984058065", sprawy_field |-> "ufCrm38_1764509780038"]>>

\* a configuration with the derived title switched on
TITLE_CONFIG_enabled == [enabled |-> TRUE]

\* the derived title of a Sprawy is managed by hand
TITLE_CONFIG == [enabled |-> FALSE]

\* the names the CRM holds for contact c
contact_names(c) ==
    IF c = 1 THEN [LAST_NAME |-> "DARAI", NAME |-> "BISHNU LAL"]
    ELSE [LAST_NAME |-> "DALAKISHVILI", NAME |-> "VAKHTANH"]

\* the title the CRM holds for a Sprawy, written by hand
sprawy_title_of(sprawy_id) == "Sprawa " \o ToString(sprawy_id)

\* _generate_title: None ("") when the title is disabled, otherwise the format
\* "{last_name} {name} * Sprawa nr. {id}" (the bullet of the source written *)
generate_title(contact_id, sprawy_id) ==
    IF ~TITLE_CONFIG.enabled THEN ""
    ELSE contact_names(contact_id).LAST_NAME \o " " \o contact_names(contact_id).NAME
         \o " * Sprawa nr. " \o ToString(sprawy_id)

\* the title entry of updates_needed: present when a title was generated and differs
title_update(contact_id, sprawy_id) ==
    LET new_title == generate_title(contact_id, sprawy_id)
    IN  [f \in {g \in {"title"} : new_title # "" /\ sprawy_title_of(sprawy_id) # new_title}
            |-> new_title]

\* the contact fields the mirror reads
ContactFields == {FIELD_MAPPINGS[i].contact_field : i \in 1..Len(FIELD_MAPPINGS)}

\* the Sprawy fields the mirror writes
MirrorFields == {FIELD_MAPPINGS[i].sprawy_field : i \in 1..Len(FIELD_MAPPINGS)}

\* the array fields of a Sprawy record the services write
ArrayFields ==
    {FIELD_SPRAWY_PODSTAWY, FIELD_SPRAWY_PODSTAWY_DATES, FIELD_SPRAWY_PRACA,
     field_praca_dates, FIELD_SPRAWY_PROCESY}

-----------------------------------------------------------------------------
(* The CRM: the child collection of engine eng and the Sprawy collection *)

\* the date attribute a child id carries when it has one
DateOf(id) ==
    CASE id = 10  -> "2025-10-10"
      [] id = 9   -> "2025-09-09"
      [] id = 2   -> "2025-02-02"
      [] OTHER    -> "2025-01-01"

NoChild == [exists |-> FALSE, contactId |-> NoContact, stageId |-> NoneStage, date |-> ""]

Child(c, st, d) == [exists |-> TRUE, contactId |-> c, stageId |-> st, date |-> d]

StageNEW == Stage(<<"X", ":", "N", "E", "W">>)

StageFail == Stage(<<"X", ":", "f", "a", "i", "l">>)

\* stage identifiers the CRM's actors give a child in Spec
Stages == {StageNEW, StageFail}

\* a request without a CRM call in it
NoFields == [k \in {} |-> <<>>]

\* one CRM call as the client sends it
Call(method, entity, id, filter, fields) ==
    [method |-> method, entity_type_id |-> entity, id |-> id,
     filter |-> filter, fields |-> fields]

\* crm.item.list on the child collection: the ids of the children of a contact
list_children(e, cs, contact_id) ==
    {id \in DOMAIN cs : cs[id].exists /\ cs[id].contactId = contact_id}

\* a Sprawy listing that ignores the contact filter
list_sprawy_unfiltered(ps, contact_id) == ParentIds

\* crm.item.list on Sprawy: the ids of the parents of a contact, or of all parents
list_sprawy(ps, contact_id) ==
    IF contact_id = NoContact THEN ParentIds
    ELSE {p \in ParentIds : ps[p].contactId = contact_id}

\* the item dicts of a child listing returned in the order ids
child_items(cs, ids) ==
    [i \in 1..Len(ids) |->
        [id |-> ids[i], stageId |-> cs[ids[i]].stageId, date |-> cs[ids[i]].date]]

\* the item dicts of a Sprawy listing returned in the order ids
sprawy_items(ps, ids) ==
    [i \in 1..Len(ids) |-> [id |-> ids[i], uf |-> ps[ids[i]].uf]]

\* crm.item.update as the CRM applies it: the named fields are replaced
update_item(ps, call) ==
    [ps EXCEPT ![call.id].uf =
        [k \in ArrayFields |->
            IF k \in DOMAIN call.fields THEN call.fields[k] ELSE @[k]]]

RECURSIVE apply_calls(_, _)
\* the Sprawy collection after the mutating calls of a run, in order
apply_calls(ps, calls) ==
    IF calls = <<>> THEN ps
    ELSE apply_calls(
            IF Head(calls).method = "update_item" THEN update_item(ps, Head(calls)) ELSE ps,
            Tail(calls))

-----------------------------------------------------------------------------
(* Results the services return *)

\* the dict a service method returns (updated_sprawy is absent on the early returns)
Result(action, detail, total, active, has_updated, updated) ==
    [action |-> action, detail |-> detail, total |-> total, active |-> active,
     has_updated |-> has_updated, updated_sprawy |-> updated]

\* new_links / new_dates of a run, when the per-parent loop computed them
Target(links, dates) == [computed |-> TRUE, links |-> links, dates |-> dates]

NoTarget == [computed |-> FALSE, links |-> <<>>, dates |-> <<>>]

\* what a run did: the CRM calls in order, the returned dict, the computed target
Run(calls, result, target) == [calls |-> calls, result |-> result, target |-> target]

\* the ids, as strings, of the listed children the classifier of e calls active
active_ids_of(e, podstawy_list) ==
    LET active_podstawy == SelectSeq(podstawy_list, LAMBDA p : is_active_stage(e, p.stageId))
    IN  [i \in 1..Len(active_podstawy) |-> str(active_podstawy[i].id)]

\* active_podstawy_map: id string -> date of the active children (a later entry wins)
active_map_of(e, podstawy_list) ==
    LET active_podstawy == SelectSeq(podstawy_list, LAMBDA p : is_active_stage(e, p.stageId))
    IN  [k \in {str(active_podstawy[i].id) : i \in 1..Len(active_podstawy)} |->
            active_podstawy[CHOOSE i \in 1..Len(active_podstawy) :
                /\ str(active_podstawy[i].id) = k
                /\ \A j \in (i + 1)..Len(active_podstawy) :
                      str(active_podstawy[j].id) # k].date]

\* new_links taken in listing order, without sorting
new_links_unsorted(active_ids) == active_ids

\* new_links of the per-parent loop
new_links_of(active_ids) == sorted(active_ids)

\* a date list that keeps the empty dates
new_dates_keep_empty(new_links, active_map) ==
    [i \in 1..Len(new_links) |->
        IF new_links[i] \in DOMAIN active_map THEN active_map[new_links[i]] ELSE ""]

\* new_dates of the per-parent loop: the dates in the order of new_links, empty ones dropped
new_dates_of(new_links, active_map) ==
    SelectSeq([i \in 1..Len(new_links) |->
                  IF new_links[i] \in DOMAIN active_map THEN active_map[new_links[i]] ELSE ""],
              LAMBDA d : d # "")

\* links_in_sync of the dated services: the lists compared directly
links_in_sync_of(current_links, new_links) == current_links = new_links

\* dates_in_sync of the dated services
dates_in_sync_of(current_dates, new_dates) == current_dates = new_dates

\* fields_to_update that never carries the date field
fields_to_update_links_only(e, links_in_sync, dates_in_sync, new_links, new_dates) ==
    [k \in (IF links_in_sync THEN {} ELSE {field_link(e)}) |-> new_links]

\* fields_to_update of the dated services: only the fields out of sync
fields_to_update_of(e, links_in_sync, dates_in_sync, new_links, new_dates) ==
    [k \in (IF links_in_sync THEN {} ELSE {field_link(e)}) \cup
           (IF dates_in_sync THEN {} ELSE {field_dates(e)}) |->
        IF k = field_link(e) THEN new_links ELSE new_dates]

\* one pass of the per-parent loop of the dated services
dated_sync_one_sprawy(e, sprawy, new_links, new_dates) ==
    LET current_links == sprawy.uf[field_link(e)]
        current_dates == sprawy.uf[field_dates(e)]
        links_in_sync == links_in_sync_of(current_links, new_links)
        dates_in_sync == dates_in_sync_of(current_dates, new_dates)
    IN  IF links_in_sync /\ dates_in_sync
        THEN [calls   |-> <<>>,
              entry   |-> [sprawy_id |-> sprawy.id, action |-> "already_synced",
                           links_updated |-> FALSE, dates_updated |-> FALSE]]
        ELSE [calls   |-> <<Call("update_item", SPA_SPRAWY, sprawy.id, NoContact,
                                 fields_to_update_of(e, links_in_sync, dates_in_sync,
                                                     new_links, new_dates))>>,
              entry   |-> [sprawy_id |-> sprawy.id, action |-> "synced",
                           links_updated |-> ~links_in_sync,
                           dates_updated |-> ~dates_in_sync]]

\* one pass of the per-parent loop of ProcesySyncService.sync_all_for_contact
procesy_sync_one_sprawy(sprawy, new_links) ==
    LET current_links == sprawy.uf[FIELD_SPRAWY_PROCESY]
    IN  IF Elems(current_links) = Elems(new_links)
        THEN [calls   |-> <<>>,
              entry   |-> [sprawy_id |-> sprawy.id, action |-> "already_synced",
                           links_updated |-> FALSE, dates_updated |-> FALSE]]
        ELSE [calls   |-> <<Call("update_item", SPA_SPRAWY, sprawy.id, NoContact,
                                 [k \in {FIELD_SPRAWY_PROCESY} |-> new_links])>>,
              entry   |-> [sprawy_id |-> sprawy.id, action |-> "synced",
                           links_updated |-> TRUE, dates_updated |-> FALSE]]

RECURSIVE flatten(_)
\* the concatenation of a list of lists
flatten(ss) == IF ss = <<>> THEN <<>> ELSE Head(ss) \o flatten(Tail(ss))

\* sync_all_for_contact / sync_all_praca_for_contact / ProcesySyncService.sync_all_for_contact,
\* given what the two listings return
sync_all_for_contact(e, contact_id, podstawy_list, sprawy_list) ==
    IF podstawy_list = <<>>
    THEN Run(<<Call("list_items", spa_child(e), 0, contact_id, NoFields)>>,
             Result("sync_all", "No items to sync", 0, 0, FALSE, <<>>),
             NoTarget)
    ELSE LET active_ids == active_ids_of(e, podstawy_list)
         IN  IF sprawy_list = <<>>
             THEN Run(<<Call("list_items", spa_child(e), 0, contact_id, NoFields),
                        Call("list_items", SPA_SPRAWY, 0, contact_id, NoFields)>>,
                      Result("sync_all", "No Sprawy to update", Len(podstawy_list),
                             Len(active_ids), FALSE, <<>>),
                      NoTarget)
             ELSE LET new_links == new_links_of(active_ids)
                      new_dates == IF e \in DatedEngines
                                   THEN new_dates_of(new_links, active_map_of(e, podstawy_list))
                                   ELSE <<>>
                      passes == [i \in 1..Len(sprawy_list) |->
                                    IF e \in DatedEngines
                                    THEN dated_sync_one_sprawy(e, sprawy_list[i],
                                                               new_links, new_dates)
                                    ELSE procesy_sync_one_sprawy(sprawy_list[i], new_links)]
                  IN  Run(<<Call("list_items", spa_child(e), 0, contact_id, NoFields),
                            Call("list_items", SPA_SPRAWY, 0, contact_id, NoFields)>>
                            \o flatten([i \in 1..Len(passes) |-> passes[i].calls]),
                          Result("sync_all", "", Len(podstawy_list), Len(active_ids), TRUE,
                                 [i \in 1..Len(passes) |-> passes[i].entry]),
                          Target(new_links, new_dates))

\* what crm.item.list returns for the ids in S when the CRM lists in the order `order`
listing(order, S) == SelectSeq(order, LAMBDA x : x \in S)

\* sync_all_for_contact on the CRM (cs, ps), the listings coming back in the orders co, po
full_sync(e, contact_id, cs, ps, co, po) ==
    sync_all_for_contact(e, contact_id,
        child_items(cs, listing(co, list_children(e, cs, contact_id))),
        sprawy_items(ps, listing(po, list_sprawy(ps, contact_id))))

\* a resolution that falls back to contact 1 when the child has no contact either
resolved_contact_defaulting(item_id, contact_id, cs) ==
    IF contact_id # NoContact THEN contact_id
    ELSE IF cs[item_id].contactId # NoContact THEN cs[item_id].contactId
    ELSE 1

\* contact_id or item.get('contactId')
resolved_contact(item_id, contact_id, cs) ==
    IF contact_id # NoContact THEN contact_id ELSE cs[item_id].contactId

\* a removal pass that empties the link array instead of filtering it
remove_one_sprawy_drop_all(e, sprawy, podstawy_id_str) ==
    LET current_links == sprawy.uf[field_link(e)]
    IN  IF podstawy_id_str \notin Elems(current_links)
        THEN [calls |-> <<>>, entries |-> <<>>]
        ELSE [calls |-> <<Call("update_item", SPA_SPRAWY, sprawy.id, NoContact,
                               [k \in {field_link(e)} |-> <<>>])>>,
              entries |-> <<[sprawy_id |-> sprawy.id, action |-> "unlinked",
                             links_updated |-> TRUE, dates_updated |-> FALSE]>>]

\* one pass of the loop of remove_*_from_sprawy
remove_one_sprawy(e, sprawy, podstawy_id_str) ==
    LET current_links == sprawy.uf[field_link(e)]
    IN  IF podstawy_id_str \notin Elems(current_links)
        THEN [calls |-> <<>>, entries |-> <<>>]
        ELSE [calls |-> <<Call("update_item", SPA_SPRAWY, sprawy.id, NoContact,
                               [k \in {field_link(e)} |->
                                   SelectSeq(current_links,
                                             LAMBDA x : x # podstawy_id_str)])>>,
              entries |-> <<[sprawy_id |-> sprawy.id, action |-> "unlinked",
                             links_updated |-> TRUE, dates_updated |-> FALSE]>>]

\* remove_podstawy_from_sprawy / remove_praca_from_sprawy / remove_procesy_from_sprawy
remove_from_sprawy(e, podstawy_id, contact_id, ps, po) ==
    LET sprawy_list == sprawy_items(ps, listing(po, list_sprawy(ps, contact_id)))
        passes == [i \in 1..Len(sprawy_list) |->
                      remove_one_sprawy(e, sprawy_list[i], str(podstawy_id))]
    IN  Run(<<Call("list_items", SPA_SPRAWY, 0, contact_id, NoFields)>>
              \o flatten([i \in 1..Len(passes) |-> passes[i].calls]),
            Result("removed", "", 0, 0, TRUE,
                   flatten([i \in 1..Len(passes) |-> passes[i].entries])),
            NoTarget)

\* sync_podstawy_to_sprawy / sync_praca_to_sprawy
dated_sync_to_sprawy(e, podstawy_id, contact_id, cs, ps, co, po) ==
    LET get == Call("get_item", spa_child(e), podstawy_id, NoContact, NoFields)
    IN  IF ~cs[podstawy_id].exists
        THEN Run(<<get>>, Result("raised", "get_item failed", 0, 0, FALSE, <<>>), NoTarget)
        ELSE LET contact == resolved_contact(podstawy_id, contact_id, cs)
             IN  IF contact = NoContact
                 THEN Run(<<get>>, Result("skipped", "No contactId", 0, 0, FALSE, <<>>),
                          NoTarget)
                 ELSE LET r == full_sync(e, contact, cs, ps, co, po)
                      IN  Run(<<get>> \o r.calls, r.result, r.target)

\* one pass of the loop of ProcesySyncService.sync_procesy_to_sprawy
procesy_link_one_sprawy(sprawy, procesy_id_str) ==
    LET current_links == sprawy.uf[FIELD_SPRAWY_PROCESY]
    IN  IF procesy_id_str \in Elems(current_links)
        THEN [calls |-> <<>>,
              entry |-> [sprawy_id |-> sprawy.id, action |-> "already_linked",
                         links_updated |-> FALSE, dates_updated |-> FALSE]]
        ELSE [calls |-> <<Call("update_item", SPA_SPRAWY, sprawy.id, NoContact,
                               [k \in {FIELD_SPRAWY_PROCESY} |->
                                   current_links \o <<procesy_id_str>>])>>,
              entry |-> [sprawy_id |-> sprawy.id, action |-> "linked",
                         links_updated |-> TRUE, dates_updated |-> FALSE]]

\* ProcesySyncService.sync_procesy_to_sprawy
procesy_sync_to_sprawy(procesy_id, contact_id, cs, ps, co, po) ==
    LET get == Call("get_item", SPA_PROCESY, procesy_id, NoContact, NoFields)
    IN  IF ~cs[procesy_id].exists
        THEN Run(<<get>>, Result("raised", "get_item failed", 0, 0, FALSE, <<>>), NoTarget)
        ELSE LET contact == resolved_contact(procesy_id, contact_id, cs)
                 is_active == procesy_is_active_stage(cs[procesy_id].stageId)
             IN  IF contact = NoContact
                 THEN Run(<<get>>, Result("skipped", "No contactId", 0, 0, FALSE, <<>>),
                          NoTarget)
                 ELSE IF ~is_active
                 THEN LET r == remove_from_sprawy("procesy", procesy_id, contact, ps, po)
                      IN  Run(<<get>> \o r.calls, r.result, r.target)
                 ELSE LET sprawy_list ==
                              sprawy_items(ps, listing(po, list_sprawy(ps, contact)))
                          passes == [i \in 1..Len(sprawy_list) |->
                                        procesy_link_one_sprawy(sprawy_list[i],
                                                                str(procesy_id))]
                          list == Call("list_items", SPA_SPRAWY, 0, contact, NoFields)
                      IN  IF sprawy_list = <<>>
                          THEN Run(<<get, list>>,
                                   Result("skipped", "No Sprawy for contact", 0, 0,
                                          FALSE, <<>>),
                                   NoTarget)
                          ELSE Run(<<get, list>>
                                     \o flatten([i \in 1..Len(passes) |-> passes[i].calls]),
                                   Result("synced", "", 0, 0, TRUE,
                                          [i \in 1..Len(passes) |-> passes[i].entry]),
                                   NoTarget)

\* the single-item sync method of the service of engine e
sync_to_sprawy(e, item_id, contact_id, cs, ps, co, po) ==
    IF e \in DatedEngines
    THEN dated_sync_to_sprawy(e, item_id, contact_id, cs, ps, co, po)
    ELSE procesy_sync_to_sprawy(item_id, contact_id, cs, ps, co, po)

\* the run r cut short by the CRM call number k raising: the calls made up to and
\* including call k, no dict returned (the exception leaves the service method)
raised_at(r, k) ==
    Run(SubSeq(r.calls, 1, k),
        Result("raised", r.calls[k].method, 0, 0, FALSE, <<>>),
        IF r.calls[k].method = "update_item" THEN r.target ELSE NoTarget)

\* the calls of a run the CRM carried out: all of them, or all but the one that raised
carried_out(r) ==
    IF r.result.action = "raised" THEN SubSeq(r.calls, 1, Len(r.calls) - 1) ELSE r.calls

-----------------------------------------------------------------------------
(* The Contact Field Mirror (ContactFieldsSyncService) *)

\* the value a contact carries in a mapped field when the field is filled in
PassportOf(c, f) ==
    IF f = FIELD_MAPPINGS[1].contact_field
    THEN (IF c = 1 THEN "AA0000001" ELSE "BB0000002")
    ELSE (IF c = 1 THEN "2031-01-01" ELSE "2032-02-02")

\* a contact whose mapped fields are all filled in
FilledContact(c) == [f \in ContactFields |-> PassportOf(c, f)]

\* the mirrored fields of a Sprawy the mirror has not written yet
NoPassport == [f \in MirrorFields |-> ""]

\* the contacts as the CRM holds them, and the mirrored fields of every Sprawy
Passports(contact, sprawy) == [contact |-> contact, sprawy |-> sprawy]

\* the dict a mirror method returns
MirrorResult(action, reason, updated) ==
    [action |-> action, reason |-> reason, updated |-> updated]

\* a run of a mirror method: the CRM calls in order and the returned dict; the failure
\* of a call the method catches is swallowed, any other failure leaves the method
MirrorRun(calls, result, swallowed) ==
    [calls |-> calls, result |-> result, target |-> NoTarget, swallowed |-> swallowed]

\* field_values: value = contact.get(contact_field, '') or '' for every mapping
field_values_of(contact) ==
    [f \in MirrorFields |->
        LET m == CHOOSE i \in 1..Len(FIELD_MAPPINGS) : FIELD_MAPPINGS[i].sprawy_field = f
        IN  contact[FIELD_MAPPINGS[m].contact_field]]

\* an update that carries every mapped field without looking at the current values
updates_needed_uncompared(current, field_values) == field_values

\* an update that carries every mapped field as soon as one of them differs
updates_needed_whole(current, field_values) ==
    [f \in {g \in MirrorFields : current # field_values} |-> field_values[f]]

\* updates_needed: the mapped fields whose current value differs from the new one
updates_needed_of(current, field_values) ==
    [f \in {g \in MirrorFields : current[g] # field_values[g]} |-> field_values[f]]

\* crm.item.update of mirrored fields as the CRM applies it
update_passport(pp, call) ==
    [pp EXCEPT !.sprawy[call.id] =
        [f \in MirrorFields |-> IF f \in DOMAIN call.fields THEN call.fields[f] ELSE @[f]]]

RECURSIVE apply_passport_calls(_, _)
\* the mirrored fields after the mutating calls of a run, in order
apply_passport_calls(pp, calls) ==
    IF calls = <<>> THEN pp
    ELSE apply_passport_calls(
            IF Head(calls).method = "update_item"
               /\ DOMAIN Head(calls).fields \subseteq MirrorFields
            THEN update_passport(pp, Head(calls)) ELSE pp,
            Tail(calls))

\* the CRM answers crm.item.get for Sprawy sprawy_id (None is 0: no such record)
sprawy_found(ps, sprawy_id) == sprawy_id \in DOMAIN ps

\* ContactFieldsSyncService.sync_fields_to_sprawy; the CRM call number f fails (0: none)
sync_fields_to_sprawy(sprawy_id, contact_id, ps, pp, f) ==
    LET get_sprawy == Call("get_item", SPA_SPRAWY, sprawy_id, NoContact, NoFields)
        first == IF contact_id = NoContact THEN <<get_sprawy>> ELSE <<>>
        contact == IF contact_id # NoContact THEN contact_id
                   ELSE IF sprawy_found(ps, sprawy_id) THEN ps[sprawy_id].contactId
                   ELSE NoContact
        get_contact == Call("get_contact", 0, contact, NoContact, NoFields)
        n == Len(first)
    IN  IF n = 1 /\ (f = 1 \/ ~sprawy_found(ps, sprawy_id))
        THEN MirrorRun(first, MirrorResult("raised", "get_item", <<>>), FALSE)
        ELSE IF contact = NoContact
        THEN MirrorRun(first, MirrorResult("skipped", "No contactId in Sprawy", <<>>), FALSE)
        ELSE IF f = n + 1 \/ contact \notin DOMAIN pp.contact
        THEN MirrorRun(first \o <<get_contact>>,
                       MirrorResult("error", "Failed to get Contact", <<>>), TRUE)
        ELSE IF f = n + 2 \/ ~sprawy_found(ps, sprawy_id)
        THEN MirrorRun(first \o <<get_contact, get_sprawy>>,
                       MirrorResult("raised", "get_item", <<>>), FALSE)
        ELSE LET updates_needed ==
                     updates_needed_of(pp.sprawy[sprawy_id],
                                       field_values_of(pp.contact[contact]))
                     @@ title_update(contact, sprawy_id)
                 update == Call("update_item", SPA_SPRAWY, sprawy_id, NoContact,
                                updates_needed)
             IN  IF DOMAIN updates_needed = {}
                 THEN MirrorRun(first \o <<get_contact, get_sprawy>>,
                                MirrorResult("already_synced", "", <<>>), FALSE)
                 ELSE IF f = n + 3
                 THEN MirrorRun(first \o <<get_contact, get_sprawy, update>>,
                                MirrorResult("raised", "update_item", <<>>), FALSE)
                 ELSE MirrorRun(first \o <<get_contact, get_sprawy, update>>,
                                MirrorResult("synced", "", <<sprawy_id>>), FALSE)

\* a pass of the loop that writes the values to a record of Podstawy pobytu
mirror_one_sprawy_writing_podstawy(sprawy_id, contact_id, pp, field_values) ==
    LET updates_needed == updates_needed_of(pp.sprawy[sprawy_id], field_values)
                          @@ title_update(contact_id, sprawy_id)
    IN  IF DOMAIN updates_needed = {} THEN <<>>
        ELSE <<Call("update_item", SPA_PODSTAWY_POBYTU, sprawy_id, NoContact,
                    updates_needed)>>

\* one pass of the loop of sync_contact_to_all_sprawy
mirror_one_sprawy(sprawy_id, contact_id, pp, field_values) ==
    LET updates_needed == updates_needed_of(pp.sprawy[sprawy_id], field_values)
                          @@ title_update(contact_id, sprawy_id)
    IN  IF DOMAIN updates_needed = {} THEN <<>>
        ELSE <<Call("update_item", SPA_SPRAWY, sprawy_id, NoContact, updates_needed)>>

\* ContactFieldsSyncService.sync_contact_to_all_sprawy; the CRM call number f fails
sync_contact_to_all_sprawy(contact_id, ps, pp, po, f) ==
    LET get_contact == Call("get_contact", 0, contact_id, NoContact, NoFields)
        list == Call("list_items", SPA_SPRAWY, 0, contact_id, NoFields)
        sprawy_list == listing(po, list_sprawy(ps, contact_id))
    IN  IF f = 1 \/ contact_id \notin DOMAIN pp.contact
        THEN MirrorRun(<<get_contact>>,
                       MirrorResult("error", "Failed to get Contact", <<>>), TRUE)
        ELSE IF f = 2
        THEN MirrorRun(<<get_contact, list>>, MirrorResult("raised", "list_items", <<>>),
                       FALSE)
        ELSE IF sprawy_list = <<>>
        THEN MirrorRun(<<get_contact, list>>,
                       MirrorResult("skipped", "No Sprawy for contact", <<>>), FALSE)
        ELSE LET field_values == field_values_of(pp.contact[contact_id])
                 updates == flatten([i \in 1..Len(sprawy_list) |->
                                        mirror_one_sprawy(sprawy_list[i], contact_id, pp,
                                                          field_values)])
                 calls == <<get_contact, list>> \o updates
             IN  IF f \in 3..Len(calls)
                 THEN MirrorRun(SubSeq(calls, 1, f),
                                MirrorResult("raised", "update_item", <<>>), FALSE)
                 ELSE MirrorRun(calls,
                                MirrorResult("sync_contact_fields", "",
                                    [i \in 1..Len(updates) |-> updates[i].id]),
                                FALSE)

-----------------------------------------------------------------------------
(* The worker's entry point: main(cloud_event) *)

\* the JSON values a message field may hold
JNull == [t |-> "null", s |-> <<>>, n |-> 0]

JStr(s) == [t |-> "str", s |-> s, n |-> 0]

JNum(n) == [t |-> "num", s |-> <<>>, n |-> n]

\* a non-empty JSON array
JArr == [t |-> "arr", s |-> <<>>, n |-> 0]

\* Python's truth value of a decoded JSON value
truthy(v) ==
    CASE v.t = "null" -> FALSE
      [] v.t = "str"  -> v.s # <<>>
      [] v.t = "num"  -> v.n # 0
      [] v.t = "arr"  -> TRUE

IsDigits(s) == s # <<>> /\ \A i \in 1..Len(s) : \E d \in 1..Len(DigitChars) : DigitChars[d] = s[i]

RECURSIVE IntOfDigits(_)
\* the number a string of decimal digits denotes
IntOfDigits(s) ==
    IF s = <<>> THEN 0
    ELSE IntOfDigits(SubSeq(s, 1, Len(s) - 1)) * 10 + (Ord(s[Len(s)]) - 1)

\* int(v): the number, or the exception int() raises (strings here are digits or letters)
int(v) ==
    CASE v.t = "num" -> [err |-> "", val |-> v.n]
      [] v.t = "str" -> IF IsDigits(v.s) THEN [err |-> "", val |-> IntOfDigits(v.s)]
                        ELSE [err |-> "ValueError", val |-> 0]
      [] OTHER       -> [err |-> "TypeError", val |-> 0]

\* int(x) if x else None, None being 0
int_or_none(v) == IF truthy(v) THEN int(v) ELSE [err |-> "", val |-> 0]

CONTACT == <<"C", "O", "N", "T", "A", "C", "T">>

\* entity_type_id after the conversion: "CONTACT", or a number (0: none)
\* a conversion that knows no contact marker: "CONTACT" is no number and becomes None
entity_or_none_without_marker(v) ==
    IF truthy(v)
    THEN [err |-> int(v).err, contact |-> FALSE, val |-> int(v).val]
    ELSE [err |-> "", contact |-> FALSE, val |-> 0]

entity_or_none(v) ==
    IF truthy(v) /\ v # JStr(CONTACT)
    THEN [err |-> int(v).err, contact |-> FALSE, val |-> int(v).val]
    ELSE [err |-> "", contact |-> v = JStr(CONTACT), val |-> 0]

\* the event of a message that has no 'event' key
NoEvent == "(absent)"

\* a Pub/Sub message: the payload kind and, for a JSON object, its fields
Message(kind, event, id, contact_id, entity_type_id, is_contact_event, bitrix_event) ==
    [kind |-> kind, event |-> event, id |-> id, contact_id |-> contact_id,
     entity_type_id |-> entity_type_id, is_contact_event |-> is_contact_event,
     bitrix_event |-> bitrix_event]

\* the three conversions of the try block, the first exception ending it
converted(msg) ==
    LET i == int_or_none(msg.id)
        c == int_or_none(msg.contact_id)
        e == entity_or_none(msg.entity_type_id)
        err == IF i.err # "" THEN i.err ELSE IF c.err # "" THEN c.err ELSE e.err
    IN  [err |-> err, item_id |-> i.val, contact_id |-> c.val,
         contact_entity |-> e.contact, entity_type_id |-> e.val]

\* sub in s
contains(s, sub) ==
    \E i \in 1..(Len(s) - Len(sub) + 1) : SubSeq(s, i, i + Len(sub) - 1) = sub

DELETE == <<"D", "E", "L", "E", "T", "E">>

\* one call of main on a service (or on the CRM client itself)
Invocation(service, method, item_id, contact_id) ==
    [service |-> service, method |-> method, item_id |-> item_id,
     contact_id |-> contact_id]

\* where the dispatch sends the event: the invocations in order, and how main ends
\* when none of them raises ("done": falls through to the end, "skipped": returns)
Dispatch(plan, ending) == [plan |-> plan, ending |-> ending]

\* a sweep that leaves Procesy legalizacyjne out
sweep_without_procesy(contact_id) ==
    <<Invocation("pobyt", "sync_all_for_contact", 0, contact_id),
      Invocation("praca", "sync_all_for_contact", 0, contact_id)>>

\* the full sync of the three services for a contact
sweep(contact_id) ==
    <<Invocation("pobyt", "sync_all_for_contact", 0, contact_id),
      Invocation("praca", "sync_all_for_contact", 0, contact_id),
      Invocation("procesy", "sync_all_for_contact", 0, contact_id)>>

\* the branch of a Podstawy pobytu event, also the fallback branch
podstawy_branch(event, item_id, contact_id) ==
    IF event = "podstawy_deleted"
    THEN Dispatch(<<Invocation("pobyt", "remove_from_sprawy", item_id, contact_id)>>, "done")
    ELSE Dispatch(<<Invocation("pobyt", "sync_to_sprawy", item_id, contact_id)>>, "done")

\* the branch of a Praca or Procesy event
bitrix_event_branch(e, bitrix_event, item_id, contact_id) ==
    IF contains(upper(bitrix_event), DELETE)
    THEN Dispatch(<<Invocation(e, "remove_from_sprawy", item_id, contact_id)>>, "done")
    ELSE Dispatch(<<Invocation(e, "sync_to_sprawy", item_id, contact_id)>>, "done")

\* the branch of a Sprawy event
sprawy_branch(item_id, contact_id, ps) ==
    LET get == <<Invocation("bitrix", "get_item", item_id, NoContact)>>
        fetched == IF sprawy_found(ps, item_id) THEN ps[item_id].contactId ELSE NoContact
    IN  IF contact_id # NoContact
        THEN Dispatch(sweep(contact_id)
                        \o <<Invocation("contact", "sync_fields_to_sprawy", item_id,
                                        contact_id)>>,
                      "done")
        ELSE IF fetched # NoContact
        THEN Dispatch(get \o sweep(fetched)
                        \o <<Invocation("contact", "sync_fields_to_sprawy", item_id,
                                        fetched)>>,
                      "done")
        ELSE Dispatch(get, "skipped")

\* a contact branch that mirrors a deleted contact too
contact_branch_ignoring_event(event, contact_id) ==
    IF contact_id = NoContact THEN Dispatch(<<>>, "skipped")
    ELSE Dispatch(<<Invocation("contact", "sync_contact_to_all_sprawy", 0,
                               contact_id)>>, "done")

\* the branch of a contact event
contact_branch(event, contact_id) ==
    IF contact_id = NoContact THEN Dispatch(<<>>, "skipped")
    ELSE IF event = "contact_deleted" THEN Dispatch(<<>>, "done")
    ELSE Dispatch(<<Invocation("contact", "sync_contact_to_all_sprawy", 0,
                               contact_id)>>, "done")

\* the if/elif chain of main
dispatch(event, ids, is_contact_event, bitrix_event, ps) ==
    LET item_id == ids.item_id
        contact_id == ids.contact_id
        entity_type_id == ids.entity_type_id
    IN
    IF is_contact_event \/ ids.contact_entity
    THEN contact_branch(event, contact_id)
    ELSE IF entity_type_id = SPA_SPRAWY THEN sprawy_branch(item_id, contact_id, ps)
    ELSE IF entity_type_id = SPA_PODSTAWY_POBYTU
    THEN podstawy_branch(event, item_id, contact_id)
    ELSE IF entity_type_id = SPA_PRACA
    THEN bitrix_event_branch("praca", bitrix_event, item_id, contact_id)
    ELSE IF entity_type_id = SPA_PROCESY
    THEN bitrix_event_branch("procesy", bitrix_event, item_id, contact_id)
    ELSE IF event = "sync_all"
    THEN Dispatch(sweep(contact_id)
                    \o <<Invocation("contact", "sync_contact_to_all_sprawy", 0,
                                    contact_id)>>,
                  "done")
    ELSE podstawy_branch(event, item_id, contact_id)

-----------------------------------------------------------------------------
(* The state machine: the CRM's actors change children, the worker runs the services *)

\* the last thing that happened: a service call with its run, or a change by the CRM
Last(op, contact_id, item_id, run, repeat) ==
    [op |-> op, contact_id |-> contact_id, item_id |-> item_id, run |-> run,
     repeat |-> repeat]

NoRun == Run(<<>>, Result("", "", 0, 0, FALSE, <<>>), NoTarget)

Changed == Last("change", NoContact, 0, NoRun, FALSE)

\* no invocation of the worker is in progress
Idle == <<>>

NoLinks == [k \in ArrayFields |-> <<>>]

\* every contact filled in, no Sprawy mirrored yet
UnmirroredPassports ==
    Passports([c \in Contacts |-> FilledContact(c)], [p \in ParentIds |-> NoPassport])

\* a Sprawy whose arrays of engine e are out of date: ids in the wrong order, a stale date
StaleLinks(e) ==
    [k \in ArrayFields |->
        IF k = field_link(e) THEN <<str(9), str(10)>>
        ELSE IF e \in DatedEngines /\ k = field_dates(e) THEN <<DateOf(9)>>
        ELSE <<>>]

\* the dates a child of engine e may carry (Procesy has no date attribute)
ChildDates(e, id) == IF e \in DatedEngines THEN {"", DateOf(id)} ELSE {""}

\* the contact whose children the CRM's actors move through every stage and date
Subject == CHOOSE c \in Contacts : \A d \in Contacts : c <= d

\* the child records the CRM's actors may make of child id: every stage and date for
\* the Subject contact; an active, dated child for another contact or for no contact
ChildRecords(e, id) ==
    {Child(Subject, st, d) : st \in Stages, d \in ChildDates(e, id)}
    \cup {Child(c, StageNEW, IF e \in DatedEngines THEN DateOf(id) ELSE "") :
             c \in (Contacts \cup {NoContact}) \ {Subject}}

\* the order in which crm.item.list returns Sprawy: by id
ascending(S) == CHOOSE s \in Orderings(S) : \A i, j \in 1..Len(s) : i < j => s[i] < s[j]

Init ==
    /\ eng \in Engines
    /\ children = [id \in ChildIds |-> NoChild]
    /\ \E c2 \in Contacts :
          parents = [p \in ParentIds |->
                        [contactId |-> IF p = 1 THEN Subject ELSE c2,
                         uf |-> StaleLinks(eng)]]
    /\ passports = UnmirroredPassports
    /\ last = Changed
    /\ running = Idle

\* a CRM actor creates a child or changes its contact, stage or date
ChildPut(id, rec) ==
    /\ children[id] # rec
    /\ children' = [children EXCEPT ![id] = rec]
    /\ last' = Changed
    /\ UNCHANGED <<eng, parents, passports, running>>

\* a CRM actor deletes a child
ChildDelete(id) ==
    /\ children[id].exists
    /\ children' = [children EXCEPT ![id] = NoChild]
    /\ last' = Changed
    /\ UNCHANGED <<eng, parents, passports, running>>

\* the orders in which crm.item.list may return the children of a contact
ChildOrders(contact_id) == Orderings(list_children(eng, children, contact_id))

\* the worker runs sync_all_for_contact(contact_id) of the service
ReconcileAll(contact_id) ==
    \E co \in ChildOrders(contact_id) :
        LET r == full_sync(eng, contact_id, children, parents, co, ascending(ParentIds))
        IN  /\ parents' = apply_calls(parents, r.calls)
            /\ last' = Last("sync_all", contact_id, 0, r,
                            last.op = "sync_all" /\ last.contact_id = contact_id)
            /\ UNCHANGED <<eng, children, passports, running>>

\* the worker runs sync_*_to_sprawy(item_id, contact_id) of the service
ReconcileOne(item_id, contact_id) ==
    \E co \in ChildOrders(resolved_contact(item_id, contact_id, children)) :
        LET r == sync_to_sprawy(eng, item_id, contact_id, children, parents, co,
                                ascending(ParentIds))
        IN  /\ parents' = apply_calls(parents, r.calls)
            /\ last' = Last("sync_one", contact_id, item_id, r, FALSE)
            /\ UNCHANGED <<eng, children, passports, running>>

\* the worker runs remove_*_from_sprawy(item_id, contact_id) of the service
RemoveChild(item_id, contact_id) ==
    LET r == remove_from_sprawy(eng, item_id, contact_id, parents, ascending(ParentIds))
    IN  /\ parents' = apply_calls(parents, r.calls)
        /\ last' = Last("remove", contact_id, item_id, r, FALSE)
        /\ UNCHANGED <<eng, children, passports, running>>

\* the worker runs sync_all_for_contact(contact_id) and one of its CRM calls raises
ReconcileAllFailing(contact_id) ==
    \E co \in ChildOrders(contact_id) :
        LET r == full_sync(eng, contact_id, children, parents, co, ascending(ParentIds))
        IN  \E k \in 1..Len(r.calls) :
                /\ parents' = apply_calls(parents, carried_out(raised_at(r, k)))
                /\ last' = Last("sync_all_failed", contact_id, 0, raised_at(r, k), FALSE)
                /\ UNCHANGED <<eng, children, passports, running>>

Next ==
    \/ \E id \in ChildIds : \E rec \in ChildRecords(eng, id) : ChildPut(id, rec)
    \/ \E id \in ChildIds : ChildDelete(id)
    \/ ReconcileAll(Subject)

Spec == Init /\ [][Next]_vars

-----------------------------------------------------------------------------
(* SpecOne: the CRM is set up, then the worker handles single-item and full syncs *)

\* no service has run yet
SettingUp == last.op = "change"

NextOne ==
    \/ \E id \in ChildIds : \E rec \in ChildRecords(eng, id) :
          SettingUp /\ ChildPut(id, rec)
    \/ ReconcileAll(Subject)
    \/ \E id \in ChildIds, c \in {NoContact, Subject} : ReconcileOne(id, c)

SpecOne == Init /\ [][NextOne]_vars

-----------------------------------------------------------------------------
(* SpecStage: one child of the Subject carries any stage identifier built from *)
(* StageWords; the worker runs the full sync and the single-item sync          *)

\* the ':'-separated parts stage identifiers are built from
StageWords ==
    { <<>>,
      <<"N", "E", "W">>,
      <<"S", "U", "C", "C", "E", "S", "S">>,
      <<"f", "a", "i", "l">>,
      <<"F", "a", "i", "l", "u", "r", "e">>,
      <<"L", "o", "S", "e">>,
      <<"a", "p", "o", "l", "o", "g", "y">>,
      <<"F", "A", "I", "L", "S">> }

RECURSIVE join(_, _)
\* sep.join(parts)
join(parts, sep) ==
    IF Len(parts) = 1 THEN parts[1]
    ELSE parts[1] \o <<sep>> \o join(Tail(parts), sep)

\* None and every identifier of at most MaxParts parts
WideStages ==
    {NoneStage} \cup
    {Stage(join(ps, ":")) : ps \in UNION {[1..n -> StageWords] : n \in 1..MaxParts}}

\* the child that carries the stage identifier under test, and its active sibling
Probe == ChildIdPool[1]

Sibling == ChildIdPool[2]

InitStage ==
    /\ eng \in Engines
    /\ \E st \in WideStages :
          children = [id \in ChildIds |->
              IF id = Probe
              THEN Child(Subject, st, IF eng \in DatedEngines THEN DateOf(id) ELSE "")
              ELSE IF id = Sibling THEN Child(Subject, StageNEW, "")
              ELSE NoChild]
    /\ parents = [p \in ParentIds |-> [contactId |-> Subject, uf |-> StaleLinks(eng)]]
    /\ passports = UnmirroredPassports
    /\ last = Changed
    /\ running = Idle

NextStage ==
    \/ ReconcileAll(Subject)
    \/ ReconcileOne(Probe, NoContact)

SpecStage == InitStage /\ [][NextStage]_vars

-----------------------------------------------------------------------------
(* SpecRemove: the CRM is set up, then the worker runs the full sync, the        *)
(* single-item sync and the removal in any order                                *)

NextRemove ==
    \/ \E id \in ChildIds : \E rec \in ChildRecords(eng, id) :
          SettingUp /\ ChildPut(id, rec)
    \/ \E id \in ChildIds : SettingUp /\ ChildDelete(id)
    \/ ReconcileAll(Subject)
    \/ \E id \in ChildIds : ReconcileOne(id, NoContact)
    \/ \E id \in ChildIds, c \in Contacts \cup {NoContact} : RemoveChild(id, c)

SpecRemove == Init /\ [][NextRemove]_vars

-----------------------------------------------------------------------------
(* SpecFail: as Spec, and a CRM call of a full sync may raise                    *)

NextFail ==
    \/ \E id \in ChildIds : \E rec \in ChildRecords(eng, id) : ChildPut(id, rec)
    \/ \E id \in ChildIds : ChildDelete(id)
    \/ ReconcileAll(Subject)
    \/ ReconcileAllFailing(Subject)

SpecFail == Init /\ [][NextFail]_vars

-----------------------------------------------------------------------------
(* SpecScenario: a contact with children 1, 2 and 3 and one Sprawy; the CRM's    *)
(* actors move the children through the stages, the worker runs the full sync   *)

ScenarioIds == {1, 2, 3}

StageSUCCESS == Stage(<<"X", ":", "S", "U", "C", "C", "E", "S", "S">>)

StageFAIL == Stage(<<"X", ":", "F", "A", "I", "L">>)

\* the Sprawy of the scenario's contact
ScenarioSprawy == CHOOSE p \in ParentIds : \A q \in ParentIds : p <= q

\* the arrays of engine e set to links and dates, every other array empty
ArraysOf(e, links, dates) ==
    [k \in ArrayFields |->
        IF k = field_link(e) THEN links
        ELSE IF e \in DatedEngines /\ k = field_dates(e) THEN dates
        ELSE <<>>]

InitScenario ==
    /\ eng \in DatedEngines
    /\ \E d2 \in {"", DateOf(2)} :
          children = [id \in ScenarioIds |->
              CASE id = 1 -> Child(Subject, StageNEW, "")
                [] id = 2 -> Child(Subject, StageSUCCESS, d2)
                [] id = 3 -> Child(Subject, StageNEW, DateOf(3))]
    /\ parents = [p \in ParentIds |->
                     IF p = ScenarioSprawy
                     THEN [contactId |-> Subject,
                           uf |-> ArraysOf(eng, <<str(1), str(2)>>, <<>>)]
                     ELSE [contactId |-> CHOOSE c \in Contacts : c # Subject,
                           uf |-> StaleLinks(eng)]]
    /\ passports = UnmirroredPassports
    /\ last = Changed
    /\ running = Idle

NextScenario ==
    \/ \E id \in ScenarioIds, st \in {StageNEW, StageSUCCESS, StageFAIL} :
          \E d \in {"", DateOf(id)} : ChildPut(id, Child(Subject, st, d))
    \/ ReconcileAll(Subject)

SpecScenario == InitScenario /\ [][NextScenario]_vars

-----------------------------------------------------------------------------
(* SpecMain: the CRM holds children, Sprawy and contacts; the worker handles one *)
(* Pub/Sub message, which the transport delivers again when main raises; any one *)
(* CRM call of an invocation may fail                                            *)

\* the child collection the service of engine e reads: the collection of eng holds
\* the children, the collections of the other two services are empty
collection(e, cs) == IF e = eng THEN cs ELSE [id \in DOMAIN cs |-> NoChild]

\* the run r when the CRM call number f fails (0, or beyond its calls: none fails)
faulted(r, f) == IF f \in 1..Len(r.calls) THEN raised_at(r, f) ELSE r

\* the method of the service of engine e that main invokes
engine_run(e, inv, cs, ps) ==
    LET co == ascending(DOMAIN cs)
        po == ascending(ParentIds)
    IN  CASE inv.method = "sync_all_for_contact" ->
                 full_sync(e, inv.contact_id, cs, ps, co, po)
          [] inv.method = "remove_from_sprawy" ->
                 remove_from_sprawy(e, inv.item_id, inv.contact_id, ps, po)
          [] inv.method = "sync_to_sprawy" ->
                 IF inv.item_id \in DOMAIN cs
                 THEN sync_to_sprawy(e, inv.item_id, inv.contact_id, cs, ps, co, po)
                 ELSE Run(<<Call("get_item", spa_child(e), inv.item_id, NoContact, NoFields)>>,
                          Result("raised", "get_item failed", 0, 0, FALSE, <<>>), NoTarget)

\* bitrix.get_item(SPA_SPRAWY, item_id) called by main itself
fetch_sprawy(item_id, ps, f) ==
    MirrorRun(<<Call("get_item", SPA_SPRAWY, item_id, NoContact, NoFields)>>,
              IF f = 1 \/ ~sprawy_found(ps, item_id)
              THEN MirrorResult("raised", "get_item", <<>>)
              ELSE MirrorResult("fetched", "", <<>>),
              FALSE)

\* the element of a one-element set
the(S) == CHOOSE x \in S : TRUE

\* one invocation of main carried out on the CRM, its CRM call number f failing
invoke(inv, cs, ps, pp, f) ==
    IF inv.service = "bitrix" THEN fetch_sprawy(inv.item_id, ps, f)
    ELSE IF inv.service = "contact"
    THEN IF inv.method = "sync_fields_to_sprawy"
         THEN sync_fields_to_sprawy(inv.item_id, inv.contact_id, ps, pp, f)
         ELSE sync_contact_to_all_sprawy(inv.contact_id, ps, pp, ascending(ParentIds), f)
    ELSE the({MirrorRun(q.calls, q.result, FALSE) :
                 q \in {faulted(r, f) :
                           r \in {engine_run(inv.service, inv,
                                             collection(inv.service, cs), ps)}}})

\* main before its first invocation: nothing raised, no failure swallowed, the CRM
\* as it is, the CRM call number f still to fail
Started(ps, pp, f) ==
    [raised |-> FALSE, swallowed |-> FALSE, failed |-> FALSE, invocations |-> <<>>,
     calls |-> <<>>, ps |-> ps, pp |-> pp, f |-> f]

\* main after the invocation inv, whose run was r
after(acc, inv, r) ==
    [raised |-> r.result.action = "raised",
     swallowed |-> acc.swallowed \/ r.swallowed,
     failed |-> acc.failed \/ (acc.f # 0 /\ acc.f <= Len(r.calls)),
     invocations |-> Append(acc.invocations, inv),
     calls |-> acc.calls \o r.calls,
     ps |-> apply_calls(acc.ps, carried_out(r)),
     pp |-> apply_passport_calls(acc.pp, carried_out(r)),
     f |-> IF acc.f = 0 \/ acc.f <= Len(r.calls) THEN 0 ELSE acc.f - Len(r.calls)]

RECURSIVE run_plan(_, _, _)
\* the invocations of a dispatch carried out in order, until one raises
run_plan(plan, cs, started) ==
    the({IF plan = <<>> \/ acc.raised THEN acc
         ELSE run_plan(Tail(plan), cs,
                       the({after(acc, Head(plan), r) :
                               r \in {invoke(Head(plan), cs, acc.ps, acc.pp, acc.f)}})) :
            acc \in {started}})

\* how an invocation of main ended: "rejected" (returned before the services were
\* initialised), "skipped" (returned from the dispatch), "done" (reached the end of
\* main), "raised" (an exception left main: the transport delivers the message again)
Handled(outcome, reason, invocations, calls, call_failed, fault_hit, ps, pp) ==
    [outcome |-> outcome, reason |-> reason, invocations |-> invocations,
     calls |-> calls, call_failed |-> call_failed, fault_hit |-> fault_hit,
     ps |-> ps, pp |-> pp]

\* a validation that lets a sync_all without contact_id through
validate_item_id_only(event, item_id, contact_id) ==
    IF item_id = 0 /\ event # "sync_all" THEN "Missing item_id" ELSE ""

\* the two checks under "# Validate": the reason main returns for, or "" when it goes on
validate(event, item_id, contact_id) ==
    IF item_id = 0 /\ event # "sync_all" THEN "Missing item_id"
    ELSE IF event = "sync_all" /\ contact_id = NoContact THEN "sync_all requires contact_id"
    ELSE ""

\* main(cloud_event) on the CRM (cs, ps, pp), the CRM call number f failing
main(msg, f, cs, ps, pp) ==
    IF msg.kind # "object"
    THEN Handled("rejected", "parse", <<>>, <<>>, FALSE, FALSE, ps, pp)
    ELSE LET ids == converted(msg)
             event == IF msg.event = NoEvent THEN "sprawy_updated" ELSE msg.event
         IN  IF ids.err = "ValueError"
             THEN Handled("rejected", "Invalid ID format", <<>>, <<>>, FALSE, FALSE, ps, pp)
             ELSE IF ids.err # ""
             THEN Handled("raised", ids.err, <<>>, <<>>, FALSE, FALSE, ps, pp)
             ELSE IF validate(event, ids.item_id, ids.contact_id) # ""
             THEN Handled("rejected", validate(event, ids.item_id, ids.contact_id),
                          <<>>, <<>>, FALSE, FALSE, ps, pp)
             ELSE LET d == dispatch(event, ids, msg.is_contact_event, msg.bitrix_event, ps)
                  IN  the({Handled(IF r.raised THEN "raised" ELSE d.ending, "",
                                   r.invocations, r.calls, r.raised \/ r.swallowed,
                                   r.failed, r.ps, r.pp) :
                              r \in {run_plan(d.plan, cs, Started(ps, pp, f))}})

\* the last thing that happened was an invocation of main
Delivered(msg, f, h) ==
    [op |-> "main", contact_id |-> NoContact, item_id |-> 0, run |-> NoRun,
     repeat |-> FALSE, msg |-> msg, fault |-> f, outcome |-> h.outcome,
     reason |-> h.reason, invocations |-> h.invocations, calls |-> h.calls,
     call_failed |-> h.call_failed]

\* a number of CRM calls that no invocation of main exceeds
MaxCalls == 12

\* the worker handles msg; any one of the CRM calls it makes may fail
Handle(msg) ==
    \E f \in 0..MaxCalls :
        \E h \in {main(msg, f, children, parents, passports)} :
            /\ f = 0 \/ h.fault_hit
            /\ parents' = h.ps
            /\ passports' = h.pp
            /\ last' = Delivered(msg, f, h)
            /\ UNCHANGED <<eng, children, running>>

ItemDELETE == <<"O","N","C","R","M","D","Y","N","A","M","I","C","I","T","E","M",
                "D","E","L","E","T","E">>

ItemUPDATE == <<"O","N","C","R","M","D","Y","N","A","M","I","C","I","T","E","M",
                "U","P","D","A","T","E">>

\* the event names of the messages delivered to the worker
Events ==
    {NoEvent, "sync_all", "podstawy_deleted", "sprawy_deleted", "contact_deleted",
     "contact_updated"}

\* the child the messages are about
Trigger == CHOOSE id \in ChildIds : \A other \in ChildIds : id <= other

\* the 'id' values: none, the id of a record, a word, an array
ItemIdValues(et) ==
    {JNull, JStr(<<"a", "b", "c">>), JArr,
     IF et = JStr(str(SPA_SPRAWY)) THEN JStr(str(ScenarioSprawy)) ELSE JStr(str(Trigger))}

ContactIdValues == {JNull, JStr(str(Subject))}

EntityValues ==
    {JNull, JStr(CONTACT), JStr(str(7))}
    \cup {JStr(str(n)) : n \in {SPA_SPRAWY, SPA_PODSTAWY_POBYTU, SPA_PRACA, SPA_PROCESY}}

Messages ==
    {Message(k, NoEvent, JNull, JNull, JNull, FALSE, <<>>) :
        k \in {"undecodable", "not_json", "not_object"}}
    \cup UNION {{Message("object", ev, id, c, et, ice, be) :
                    ev \in Events, id \in ItemIdValues(et), c \in ContactIdValues,
                    ice \in BOOLEAN, be \in {<<>>, ItemUPDATE, ItemDELETE}} :
                et \in EntityValues}

\* a Sprawy whose mirrored fields hold the passport of its contact
MirroredPassport(c) == field_values_of(FilledContact(c))

\* the Trigger child is there or deleted; Sprawy ScenarioSprawy has the Subject for
\* contact, with the passport mirrored already, or has no contact
InitMain ==
    /\ eng \in Engines
    /\ \E rec \in {NoChild, Child(Subject, StageNEW,
                                  IF eng \in DatedEngines THEN DateOf(Trigger) ELSE "")} :
          children = [id \in ChildIds |-> IF id = Trigger THEN rec ELSE NoChild]
    /\ \E c1 \in {Subject, NoContact} :
          /\ parents = [p \in ParentIds |->
                           [contactId |-> IF p = ScenarioSprawy THEN c1 ELSE Subject,
                            uf |-> StaleLinks(eng)]]
          /\ passports =
                Passports([c \in Contacts |-> FilledContact(c)],
                          [p \in ParentIds |->
                              IF p = ScenarioSprawy /\ c1 = Subject
                              THEN MirroredPassport(Subject) ELSE NoPassport])
    /\ last = Changed
    /\ running = Idle

\* the messages the transport may deliver now: any message to begin with, and the
\* message of an invocation that raised, again
Deliverable ==
    IF SettingUp THEN Messages
    ELSE IF last.op = "main" /\ last.outcome = "raised" THEN {last.msg}
    ELSE {}

NextMain == \E msg \in Deliverable : Handle(msg)

SpecMain == InitMain /\ [][NextMain]_vars

-----------------------------------------------------------------------------
(* What the specification says, stated independently of the services' code *)

\* the terminal stage names of the specification
TerminalNames ==
    { <<"S","U","C","C","E","S","S">>, <<"F","A","I","L">>,
      <<"F","A","I","L","U","R","E">>, <<"L","O","S","E">>,
      <<"A","P","O","L","O","G","Y">> }

HasColon(s) == \E i \in 1..Len(s) : s[i] = ":"

\* the substring after the last ':'
AfterLastColon(s) ==
    LET k == CHOOSE i \in 1..Len(s) : s[i] = ":" /\ \A j \in (i + 1)..Len(s) : s[j] # ":"
    IN  SubSeq(s, k + 1, Len(s))

\* the stage name of the identifier is terminal
IsTerminal(stage_id) ==
    /\ ~stage_id.null
    /\ HasColon(stage_id.str)
    /\ upper(AfterLastColon(stage_id.str)) \in TerminalNames

\* the children a contact currently has, and the active ones among them
ChildrenOf(c) == {id \in ChildIds : children[id].exists /\ children[id].contactId = c}

ActiveChildrenOf(c) == {id \in ChildrenOf(c) : ~IsTerminal(children[id].stageId)}

ParentsOf(c) == {p \in ParentIds : parents[p].contactId = c}

\* links lists exactly the ids of S, as strings, ascending by string comparison
IsSortedIds(links, S) ==
    /\ Len(links) = Cardinality(S)
    /\ Elems(links) = {str(id) : id \in S}
    /\ \A i, j \in 1..Len(links) : i < j => StrLess(links[i], links[j])

\* the date of the child whose id, as a string, is s
DateOfLink(s) == children[CHOOSE id \in ChildIds : str(id) = s].date

\* the non-empty dates of the children listed in links, in the order of links
DatesAlong(links) ==
    LET dated == {i \in 1..Len(links) : DateOfLink(links[i]) # ""}
    IN  [k \in 1..Cardinality(dated) |->
            DateOfLink(links[CHOOSE i \in dated : Cardinality({j \in dated : j <= i}) = k])]

\* the update calls of a run, and those addressed to parent p
UpdateCalls(run) == SelectSeq(run.calls, LAMBDA c : c.method = "update_item")

UpdatesOf(run, p) == SelectSeq(run.calls, LAMBDA c : c.method = "update_item" /\ c.id = p)

\* the outcome a run reports for parent p ("" when it reports none)
OutcomeOf(run, p) ==
    IF \E i \in 1..Len(run.result.updated_sprawy) : run.result.updated_sprawy[i].sprawy_id = p
    THEN run.result.updated_sprawy[
             CHOOSE i \in 1..Len(run.result.updated_sprawy) :
                 run.result.updated_sprawy[i].sprawy_id = p].action
    ELSE ""

\* the contact a finished run reconciled
ReconciledContact ==
    IF last.op = "sync_all" \/ last.contact_id # NoContact THEN last.contact_id
    ELSE children[last.item_id].contactId

-----------------------------------------------------------------------------
(* C1 *)

\* C1: when sync_all_for_contact(c) has run and runs again with no change to the CRM in
\* between, the second run issues no update_item and reports every parent of c as
\* already_synced.
C1_SecondRunIsNoop ==
    (last.op = "sync_all" /\ last.repeat) =>
        /\ UpdateCalls(last.run) = <<>>
        /\ \A p \in ParentsOf(last.contact_id) : OutcomeOf(last.run, p) = "already_synced"

-----------------------------------------------------------------------------
(* C2 *)

\* C2: after sync_all_for_contact(c), whatever children c has (none included), every
\* parent of c stores the sorted ids of c's active children as links and, in the dated
\* services, those children's non-empty dates as dates.
C2_ParentsConverged ==
    last.op = "sync_all" =>
        \A p \in ParentsOf(last.contact_id) :
            /\ IsSortedIds(parents[p].uf[field_link(eng)], ActiveChildrenOf(last.contact_id))
            /\ eng \in DatedEngines =>
                  parents[p].uf[field_dates(eng)] = DatesAlong(parents[p].uf[field_link(eng)])

-----------------------------------------------------------------------------
(* C3 *)

\* C3: a full sync of contact A, or a single-item sync resolved to A, issues update_item
\* only on parents whose contact is A.
C3_ContactIsolation ==
    last.op \in {"sync_all", "sync_one"} =>
        \A i \in 1..Len(last.run.calls) :
            last.run.calls[i].method = "update_item" =>
                parents[last.run.calls[i].id].contactId = ReconciledContact

\* a single-item sync updated a parent of its contact while a parent of another contact
\* held out-of-date arrays
C3_Witness ==
    /\ last.op = "sync_one"
    /\ UpdateCalls(last.run) # <<>>
    /\ \E p \in ParentIds :
          /\ parents[p].contactId # ReconciledContact
          /\ parents[p].uf = StaleLinks(eng)

-----------------------------------------------------------------------------
(* C4 *)

\* C4: a single-item sync that resolves a contact leaves the parents exactly as the full
\* sync of that contact would leave them from the same CRM data.
C4_OneEqualsAll ==
    [][(/\ last'.op = "sync_one"
        /\ children[last'.item_id].exists
        /\ resolved_contact(last'.item_id, last'.contact_id, children) # NoContact)
       => \A co \in ChildOrders(resolved_contact(last'.item_id, last'.contact_id, children)) :
             parents' = apply_calls(parents,
                 full_sync(eng, resolved_contact(last'.item_id, last'.contact_id, children),
                           children, parents, co, ascending(ParentIds)).calls)]_vars

-----------------------------------------------------------------------------
(* C5 *)

\* C5: the full sync reports a parent as already synced only when its stored links equal
\* the target links as a sequence and, in the dated services, its stored dates equal the
\* target dates as a sequence; any other parent receives an update.
C5_ExactSequenceComparison ==
    [][(last'.op = "sync_all" /\ last'.run.target.computed) =>
          \A p \in ParentsOf(last'.contact_id) :
              LET same == /\ parents[p].uf[field_link(eng)] = last'.run.target.links
                          /\ eng \in DatedEngines =>
                                parents[p].uf[field_dates(eng)] = last'.run.target.dates
              IN  /\ OutcomeOf(last'.run, p) = "already_synced" <=> same
                  /\ ~same => UpdatesOf(last'.run, p) # <<>>]_vars

-----------------------------------------------------------------------------
(* C6 *)

\* C6: in the full sync a parent equal to the target receives no call, and a parent that
\* differs receives exactly one update_item whose fields are the link field iff the links
\* differ and the date field iff the dates differ.
C6_MinimalUpdate ==
    [][(last'.op = "sync_all" /\ last'.run.target.computed) =>
          \A p \in ParentsOf(last'.contact_id) :
              LET links_differ == parents[p].uf[field_link(eng)] # last'.run.target.links
                  dates_differ == /\ eng \in DatedEngines
                                  /\ parents[p].uf[field_dates(eng)] # last'.run.target.dates
                  to_p == SelectSeq(last'.run.calls, LAMBDA c : c.id = p)
              IN  IF ~links_differ /\ ~dates_differ
                  THEN to_p = <<>>
                  ELSE /\ Len(to_p) = 1
                       /\ to_p[1].method = "update_item"
                       /\ DOMAIN to_p[1].fields =
                             (IF links_differ THEN {field_link(eng)} ELSE {}) \cup
                             (IF dates_differ THEN {field_dates(eng)} ELSE {})]_vars

-----------------------------------------------------------------------------
(* C7 *)

\* C7: whatever order the listing returns the children in, the target links of a full
\* sync are the ids of the contact's active children sorted ascending as strings.
C7_CanonicalOrdering ==
    (last.op = "sync_all" /\ last.run.target.computed) =>
        IsSortedIds(last.run.target.links, ActiveChildrenOf(last.contact_id))

\* a full sync computed the target "10", "9"
C7_Witness ==
    /\ last.op = "sync_all"
    /\ last.run.target.computed
    /\ last.run.target.links = << <<"1", "0">>, <<"9">> >>

-----------------------------------------------------------------------------
(* C8 *)

\* C8: the target dates of a full sync are the non-empty dates of the active children in
\* the order of the target links: one entry per active child that has a date, and never
\* more entries than links.
C8_DateArray ==
    (last.op = "sync_all" /\ last.run.target.computed /\ eng \in DatedEngines) =>
        /\ last.run.target.dates = DatesAlong(last.run.target.links)
        /\ Len(last.run.target.dates) =
              Cardinality({id \in ActiveChildrenOf(last.contact_id) : children[id].date # ""})
        /\ Len(last.run.target.dates) <= Len(last.run.target.links)

\* a full sync whose first target link has no date and whose second has one
C8_Witness ==
    /\ last.op = "sync_all"
    /\ last.run.target.computed
    /\ eng \in DatedEngines
    /\ Len(last.run.target.links) = 2
    /\ DateOfLink(last.run.target.links[1]) = ""
    /\ last.run.target.dates = <<DateOfLink(last.run.target.links[2])>>

-----------------------------------------------------------------------------
(* C9 *)

-----------------------------------------------------------------------------
(* C10 *)

-----------------------------------------------------------------------------
(* C11 *)

\* the children of the scenario, child 3 being in stage st3
ScenarioChildren(st3) ==
    /\ children[1] = Child(Subject, StageNEW, "")
    /\ children[2].exists /\ children[2].contactId = Subject
    /\ children[2].stageId = StageSUCCESS
    /\ children[3] = Child(Subject, st3, DateOf(3))

\* the full sync just run issued exactly one call on the scenario's Sprawy, an
\* update_item setting the link field to links and the date field to dates
OneUpdateSetting(links, dates) ==
    LET to_p == SelectSeq(last'.run.calls, LAMBDA c : c.id = ScenarioSprawy)
    IN  /\ Len(UpdateCalls(last'.run)) = 1
        /\ Len(to_p) = 1
        /\ to_p[1].method = "update_item"
        /\ to_p[1].fields = [k \in {field_link(eng), field_dates(eng)} |->
                                IF k = field_link(eng) THEN links ELSE dates]
        /\ OutcomeOf(last'.run, ScenarioSprawy) = "synced"
        /\ parents'[ScenarioSprawy].uf = ArraysOf(eng, links, dates)

\* C11: with children 1 (X:NEW, no date), 2 (X:SUCCESS), 3 (X:NEW, 2025-01-01) and a
\* Sprawy holding links "1","2" and no dates, the full sync issues one update setting
\* links "1","3" and dates 2025-01-01 with outcome synced; once child 3 is in X:FAIL
\* the next full sync issues one update setting links "1" and an empty date array.
C11_ScenarioTrace ==
    [][/\ (/\ ScenarioChildren(StageNEW)
           /\ parents[ScenarioSprawy].uf = ArraysOf(eng, <<str(1), str(2)>>, <<>>)
           /\ last'.op = "sync_all")
          => OneUpdateSetting(<<str(1), str(3)>>, <<"2025-01-01">>)
       /\ (/\ ScenarioChildren(StageFAIL)
           /\ parents[ScenarioSprawy].uf = ArraysOf(eng, <<str(1), str(3)>>, <<"2025-01-01">>)
           /\ last'.op = "sync_all")
          => OneUpdateSetting(<<str(1)>>, <<>>)]_vars

\* child 3 is in X:FAIL and the full sync has just cleared the dates of the Sprawy
\* and cut its links down to "1"
C11_Witness ==
    /\ last.op = "sync_all"
    /\ children[3] = Child(Subject, StageFAIL, DateOf(3))
    /\ children[1] = Child(Subject, StageNEW, "")
    /\ parents[ScenarioSprawy].uf = ArraysOf(eng, <<str(1)>>, <<>>)
    /\ Len(UpdateCalls(last.run)) = 1
    /\ UpdateCalls(last.run)[1].fields =
          [k \in {field_link(eng), field_dates(eng)} |->
              IF k = field_link(eng) THEN <<str(1)>> ELSE <<>>]

-----------------------------------------------------------------------------
(* C12 *)

-----------------------------------------------------------------------------
(* C13 *)

\* every Sprawy has at most as many dates as links
DatesWithinLinks(ps) ==
    \A p \in ParentIds :
        Len(ps[p].uf[field_dates(eng)]) <= Len(ps[p].uf[field_link(eng)])

-----------------------------------------------------------------------------
(* C14 *)

\* Sprawy p holds the target of run r
HoldsTarget(ps, p, r) ==
    /\ ps[p].uf[field_link(eng)] = r.target.links
    /\ eng \in DatedEngines => ps[p].uf[field_dates(eng)] = r.target.dates

\* the run failed in an update_item
UpdateRaised(r) ==
    /\ r.result.action = "raised"
    /\ r.calls[Len(r.calls)].method = "update_item"

\* C14: when an update_item of the full sync raises, the Sprawy updated before it keep
\* their new arrays and the run ends raised; the run repeated on the unchanged CRM
\* without a failure leaves every Sprawy of the contact holding the target and sends
\* no update to a Sprawy that held it already.
C14_PartialFailureThenRetry ==
    [][/\ (last'.op = "sync_all_failed" /\ UpdateRaised(last'.run))
          => \A i \in 1..(Len(last'.run.calls) - 1) :
                last'.run.calls[i].method = "update_item" =>
                    HoldsTarget(parents', last'.run.calls[i].id, last'.run)
       /\ (/\ last.op = "sync_all_failed" /\ UpdateRaised(last.run)
           /\ last'.op = "sync_all" /\ last'.contact_id = last.contact_id)
          => /\ last'.run.target.computed
             /\ \A p \in ParentsOf(last'.contact_id) :
                   /\ HoldsTarget(parents', p, last'.run)
                   /\ HoldsTarget(parents, p, last'.run) => UpdatesOf(last'.run, p) = <<>>]_vars

-----------------------------------------------------------------------------
(* What the specification says of the router, stated on the message and the CRM *)

\* the worker has just handled a message
MainRan == last.op = "main"

\* the CRM calls of the last invocation that are updates
UpdatesIssued == SelectSeq(last.calls, LAMBDA c : c.method = "update_item")

\* a field value that is a number or a string of digits
IsNumeric(v) == v.t = "num" \/ (v.t = "str" /\ IsDigits(v.s))

\* the payload is a JSON object whose ids, where present, are numeric
Parseable(msg) ==
    /\ msg.kind = "object"
    /\ msg.id = JNull \/ IsNumeric(msg.id)
    /\ msg.contact_id = JNull \/ IsNumeric(msg.contact_id)

\* the action of the event
ActionOf(msg) == IF msg.event = NoEvent THEN "sprawy_updated" ELSE msg.event

\* the message is marked as a contact event, by the flag or by the collection type
ContactMarked(msg) == msg.is_contact_event \/ msg.entity_type_id = JStr(CONTACT)

-----------------------------------------------------------------------------
(* C15 *)

\* C15: when a CRM call made while handling an event fails (any getItem, listItems,
\* getContact or updateItem, in an engine or in the Contact Field Mirror), the
\* invocation ends raised, never completed, and the failed call is the last call made
C15_CrmFailureRaises ==
    (MainRan /\ last.call_failed) =>
        /\ last.outcome = "raised"
        /\ last.fault # 0 => Len(last.calls) = last.fault

-----------------------------------------------------------------------------
(* C16 *)

\* C16: a message whose payload is undecodable or not a JSON object, or whose id is
\* not numeric, is rejected: main returns without raising and issues no CRM call
C16_MalformedRejected ==
    (MainRan /\ ~Parseable(last.msg)) =>
        /\ last.outcome = "rejected"
        /\ last.calls = <<>>

-----------------------------------------------------------------------------
(* C17 *)

\* C17: a parseable event with neither an id nor a contact id, and a full-sync event
\* without a contact id, is rejected: main returns without raising and issues no CRM
\* call, whatever the collection type and the contact-event flag
C17_MissingCorrelationRejected ==
    (/\ MainRan
     /\ Parseable(last.msg)
     /\ \/ last.msg.id = JNull /\ last.msg.contact_id = JNull
        \/ ActionOf(last.msg) = "sync_all" /\ last.msg.contact_id = JNull)
    => /\ last.outcome = "rejected"
       /\ last.calls = <<>>

\* a full-sync event for the Praca collection, flagged as a contact event, with an id
\* and without a contact id, has been rejected
C17_Witness ==
    /\ MainRan
    /\ last.msg.kind = "object"
    /\ last.msg.event = "sync_all"
    /\ last.msg.id = JStr(str(Trigger))
    /\ last.msg.contact_id = JNull
    /\ last.msg.entity_type_id = JStr(str(SPA_PRACA))
    /\ last.msg.is_contact_event
    /\ last.outcome = "rejected"

-----------------------------------------------------------------------------
(* C18 *)

\* a parseable event of the Sprawy collection, other than a full-sync request, that
\* carries the id of a Sprawy and is not marked as a contact event
ParentEvent(msg) ==
    /\ Parseable(msg)
    /\ ActionOf(msg) # "sync_all"
    /\ msg.entity_type_id = JStr(str(SPA_SPRAWY))
    /\ ~ContactMarked(msg)
    /\ \E p \in ParentIds : msg.id = JStr(str(p))

\* the Sprawy a parent event is about
ParentOf(msg) == CHOOSE p \in ParentIds : msg.id = JStr(str(p))

\* the contact of a parent event: the one the event carries, otherwise the Sprawy's
OwnerOf(msg) ==
    IF msg.contact_id # JNull
    THEN CHOOSE c \in Contacts : msg.contact_id = JStr(str(c))
    ELSE parents[ParentOf(msg)].contactId

\* the invocations of main that are calls on a service
ServiceInvocations == SelectSeq(last.invocations, LAMBDA i : i.service # "bitrix")

\* C18: for a parent event none of whose CRM calls fails, the contact is the one the
\* event carries, otherwise the fetched parent's; with a contact, main runs the full
\* sync of the three engines and the mirror of the parent, all for that contact, and
\* fetches the parent first exactly when the event carries no contact; without a
\* contact main invokes no service and issues no update
C18_ParentEventSweep ==
    (MainRan /\ ParentEvent(last.msg) /\ ~last.call_failed) =>
        IF OwnerOf(last.msg) # NoContact
        THEN /\ ServiceInvocations =
                  <<Invocation("pobyt", "sync_all_for_contact", 0, OwnerOf(last.msg)),
                    Invocation("praca", "sync_all_for_contact", 0, OwnerOf(last.msg)),
                    Invocation("procesy", "sync_all_for_contact", 0, OwnerOf(last.msg)),
                    Invocation("contact", "sync_fields_to_sprawy", ParentOf(last.msg),
                               OwnerOf(last.msg))>>
             /\ (last.msg.contact_id = JNull) <=>
                    (Len(last.invocations) > 0
                        /\ last.invocations[1] =
                              Invocation("bitrix", "get_item", ParentOf(last.msg), NoContact))
             /\ last.outcome = "done"
        ELSE /\ ServiceInvocations = <<>>
             /\ UpdatesIssued = <<>>
             /\ last.outcome = "skipped"

\* a parent event without a contact has been handled: the parent was fetched, its
\* contact found, and the sweep issued updates
C18_Witness ==
    /\ MainRan
    /\ ParentEvent(last.msg)
    /\ ~last.call_failed
    /\ last.msg.contact_id = JNull
    /\ OwnerOf(last.msg) # NoContact
    /\ Len(ServiceInvocations) = 4
    /\ UpdatesIssued # <<>>

-----------------------------------------------------------------------------
(* C19 *)

\* the engine whose child collection the event names
EngineOf(msg) == CHOOSE e \in Engines : msg.entity_type_id = JStr(str(spa_child(e)))

\* a parseable event of one of the three child collections, other than a full-sync
\* request, that carries a child id and is not marked as a contact event
ChildEvent(msg) ==
    /\ Parseable(msg)
    /\ ActionOf(msg) # "sync_all"
    /\ \E e \in Engines : msg.entity_type_id = JStr(str(spa_child(e)))
    /\ ~ContactMarked(msg)
    /\ msg.id # JNull

\* the raw event name Bitrix24 sent is that of a deletion
RawDeletion(msg) == msg.bitrix_event = ItemDELETE

\* the number a numeric field value denotes, 0 when the field is absent
NumberOf(v) ==
    IF v = JNull THEN 0 ELSE IF v.t = "num" THEN v.n ELSE IntOfDigits(v.s)

\* C19: for an event of a child collection main invokes the service of that
\* collection, once: its removal method exactly when the raw Bitrix24 event name is
\* that of a deletion, and its single-item sync otherwise
C19_RoutesByRawEvent ==
    (MainRan /\ ChildEvent(last.msg)) =>
        last.invocations =
            <<Invocation(EngineOf(last.msg),
                         IF RawDeletion(last.msg) THEN "remove_from_sprawy"
                         ELSE "sync_to_sprawy",
                         NumberOf(last.msg.id), NumberOf(last.msg.contact_id))>>

-----------------------------------------------------------------------------
(* C20 *)

\* a parseable full-sync request with a contact id and without an id
FullSyncRequest(msg) ==
    /\ Parseable(msg)
    /\ ActionOf(msg) = "sync_all"
    /\ msg.contact_id # JNull
    /\ msg.id = JNull

\* C20: a full-sync request with a contact id and no id, none of whose CRM calls is
\* made to fail, is handled to the end of main, whatever collection type it carries:
\* it is neither rejected for the missing id nor raised because of it
C20_FullSyncWithoutId ==
    (MainRan /\ FullSyncRequest(last.msg) /\ last.fault = 0) => last.outcome = "done"

-----------------------------------------------------------------------------
(* C21 *)

\* the routines an invocation of main ran: service, method and contact
RoutinesOf(h) ==
    [i \in 1..Len(SelectSeq(h.invocations, LAMBDA v : v.service # "bitrix")) |->
        LET v == SelectSeq(h.invocations, LAMBDA w : w.service # "bitrix")[i]
        IN  <<v.service, v.method, v.contact_id>>]

\* C21: from the same CRM data, a full-sync request for a contact and a parent event
\* resolved to that contact run the same routines (the full sync of the three engines
\* and the same mirror operation) and leave every Sprawy of the contact in the same
\* state, when no CRM call fails
C21_SameTotalSweep ==
    SettingUp =>
        \A m1, m2 \in Messages :
            (/\ FullSyncRequest(m1)
             /\ m1.entity_type_id = JNull /\ ~ContactMarked(m1)
             /\ ParentEvent(m2)
             /\ OwnerOf(m2) # NoContact
             /\ m1.contact_id = JStr(str(OwnerOf(m2)))) =>
                LET a == main(m1, 0, children, parents, passports)
                    b == main(m2, 0, children, parents, passports)
                IN  /\ RoutinesOf(a) = RoutinesOf(b)
                    /\ \A p \in ParentsOf(OwnerOf(m2)) :
                          /\ a.ps[p] = b.ps[p]
                          /\ a.pp.sprawy[p] = b.pp.sprawy[p]

-----------------------------------------------------------------------------
(* C22 *)

\* the labels that name the deletion of a record
DeleteLabels == {"contact_deleted", "sprawy_deleted", "podstawy_deleted"}

\* a parseable event marked as a contact event that carries an id and a contact id
\* and whose label is a contact's: the deletion of the contact, or no deletion at all
ContactEvent(msg) ==
    /\ Parseable(msg)
    /\ ContactMarked(msg)
    /\ msg.id # JNull
    /\ msg.contact_id # JNull
    /\ msg.event \in DeleteLabels => msg.event = "contact_deleted"

\* the contact a message carries
ContactOf(msg) == CHOOSE c \in Contacts : msg.contact_id = JStr(str(c))

C22_WitnessDeleted ==
    /\ MainRan
    /\ ContactEvent(last.msg)
    /\ last.msg.event = "contact_deleted"
    /\ last.outcome = "done"

-----------------------------------------------------------------------------
(* C23 *)

\* the message with the contact flag set, and with the collection type t
Flagged(msg, t) == [msg EXCEPT !.is_contact_event = TRUE, !.entity_type_id = t]

\* what an invocation of main leaves behind: how it ended, the services it invoked
\* with their arguments, the CRM calls it made and the CRM data
SameEnd(h) ==
    /\ last'.outcome = h.outcome
    /\ last'.reason = h.reason
    /\ last'.invocations = h.invocations
    /\ last'.calls = h.calls
    /\ parents' = h.ps
    /\ passports' = h.pp

\* C23: an event of collection type "CONTACT" whose contact flag is false is handled
\* as the same event with the flag true is, whatever collection type the flagged
\* event names: from the same CRM data and with the same CRM call failing, main ends
\* the same way, invokes the same services with the same arguments, makes the same
\* CRM calls and leaves the same CRM data
C23_MarkerEquivalence ==
    [][(/\ MainRan'
        /\ last'.msg.kind = "object"
        /\ last'.msg.entity_type_id = JStr(CONTACT)
        /\ ~last'.msg.is_contact_event) =>
            \A t \in EntityValues :
                \A h \in {main(Flagged(last'.msg, t), last'.fault, children, parents,
                               passports)} :
                    SameEnd(h)]_vars

\* an update of a contact, marked by the collection type alone, has been mirrored
C23_Witness ==
    /\ MainRan
    /\ last.msg.kind = "object"
    /\ last.msg.entity_type_id = JStr(CONTACT)
    /\ ~last.msg.is_contact_event
    /\ last.msg.event = "contact_updated"
    /\ last.fault = 0
    /\ last.outcome = "done"
    /\ UpdatesIssued # <<>>

-----------------------------------------------------------------------------
(* C24 *)

\* a parseable event with an id whose collection type is absent or is none of
\* Sprawy, the three child collections and the contact marker, which is not flagged
\* as a contact event and is no full-sync request
UnclassifiedEvent(msg) ==
    /\ Parseable(msg)
    /\ msg.id # JNull
    /\ msg.entity_type_id \in {JNull, JStr(str(7))}
    /\ ~msg.is_contact_event
    /\ ActionOf(msg) # "sync_all"

\* the contact id main hands to the services
HandedContact(msg) == IF msg.contact_id = JNull THEN NoContact ELSE ContactOf(msg)

\* C24: an unclassified event is not rejected; main hands it to the Podstawy pobytu
\* service and to nothing else: to remove_podstawy_from_sprawy when the action is a
\* deletion, to sync_podstawy_to_sprawy otherwise
C24_LegacyFallback ==
    (MainRan /\ UnclassifiedEvent(last.msg)) =>
        /\ last.outcome # "rejected"
        /\ last.invocations
             = <<Invocation("pobyt",
                            IF last.msg.event \in DeleteLabels
                            THEN "remove_from_sprawy" ELSE "sync_to_sprawy",
                            NumberOf(last.msg.id), HandedContact(last.msg))>>

-----------------------------------------------------------------------------
(* SpecMirror: the two methods of the Contact Field Mirror run on their own, on
   Sprawy whose mirrored fields are empty, current, or partly out of date, for
   contacts whose passport has an expiry date or none *)

\* mirrored fields that hold the passport number of contact c and an expiry date
\* the contact has replaced since
StalePassport(c) ==
    [f \in MirrorFields |->
        IF f = FIELD_MAPPINGS[1].sprawy_field
        THEN PassportOf(c, FIELD_MAPPINGS[1].contact_field)
        ELSE "2020-01-01"]

\* a contact whose passport carries no expiry date
UndatedContact(c) ==
    [f \in ContactFields |->
        IF f = FIELD_MAPPINGS[1].contact_field THEN PassportOf(c, f) ELSE ""]

PassportStates ==
    {NoPassport} \cup {MirroredPassport(c) : c \in Contacts}
                 \cup {StalePassport(c) : c \in Contacts}

InitMirror ==
    /\ eng = "pobyt"
    /\ children = [id \in ChildIds |-> NoChild]
    /\ \E owner \in [ParentIds -> Contacts \cup {NoContact}] :
          parents = [p \in ParentIds |-> [contactId |-> owner[p], uf |-> NoLinks]]
    /\ \E held \in [ParentIds -> PassportStates] :
          \E dated \in [Contacts -> BOOLEAN] :
              passports =
                  Passports([c \in Contacts |->
                                IF dated[c] THEN FilledContact(c) ELSE UndatedContact(c)],
                            held)
    /\ last = Changed
    /\ running = Idle

\* the mirror method about to run is the one that has just run to its end, with the
\* same arguments and without a failing CRM call
Rerun(op, sprawy_id, contact_id) ==
    /\ last.op = op /\ last.item_id = sprawy_id /\ last.contact_id = contact_id
    /\ last.fault = 0
    /\ last.run.result.action \in {"synced", "already_synced", "sync_contact_fields"}

\* what a run of a mirror method leaves in last
Mirrored(op, sprawy_id, contact_id, f, r) ==
    [op |-> op, contact_id |-> contact_id, item_id |-> sprawy_id, run |-> r,
     repeat |-> Rerun(op, sprawy_id, contact_id), fault |-> f,
     prior |-> IF Rerun(op, sprawy_id, contact_id) THEN Len(last.run.result.updated)
               ELSE 0]

\* sync_fields_to_sprawy(sprawy_id, contact_id) runs, its CRM call number f failing
MirrorOne(sprawy_id, contact_id) ==
    \E f \in 0..MaxCalls :
        \E r \in {sync_fields_to_sprawy(sprawy_id, contact_id, parents, passports, f)} :
            /\ f <= Len(r.calls)
            /\ passports' = apply_passport_calls(passports, carried_out(r))
            /\ last' = Mirrored("sync_fields_to_sprawy", sprawy_id, contact_id, f, r)
            /\ UNCHANGED <<eng, children, parents, running>>

\* sync_contact_to_all_sprawy(contact_id) runs, the CRM listing the Sprawy in the
\* order po, the CRM call number f failing
MirrorAll(contact_id) ==
    \E f \in 0..MaxCalls, po \in Orderings(ParentIds) :
        \E r \in {sync_contact_to_all_sprawy(contact_id, parents, passports, po, f)} :
            /\ f <= Len(r.calls)
            /\ passports' = apply_passport_calls(passports, carried_out(r))
            /\ last' = Mirrored("sync_contact_to_all_sprawy", 0, contact_id, f, r)
            /\ UNCHANGED <<eng, children, parents, running>>

NextMirror ==
    \/ \E sprawy_id \in ParentIds, contact_id \in Contacts \cup {NoContact} :
          MirrorOne(sprawy_id, contact_id)
    \/ \E contact_id \in Contacts : MirrorAll(contact_id)

SpecMirror == InitMirror /\ [][NextMirror]_vars

-----------------------------------------------------------------------------
(* C25 *)

\* the last run was sync_contact_to_all_sprawy and the call that failed in it was
\* an update of a Sprawy
UpdateFailedInMirrorAll ==
    /\ last.op = "sync_contact_to_all_sprawy"
    /\ last.fault # 0
    /\ last.run.calls[last.fault].method = "update_item"

\* C25: when an update fails in sync_contact_to_all_sprawy, every other Sprawy of
\* the contact ends with the contact's values in its mirrored fields, and the method
\* returns its per-Sprawy results rather than raising
C25_FailureDoesNotAbort ==
    [][UpdateFailedInMirrorAll' =>
          /\ last'.run.result.action # "raised"
          /\ \A p \in list_sprawy(parents, last'.contact_id)
                        \ {last'.run.calls[last'.fault].id} :
                passports'.sprawy[p]
                    = field_values_of(passports.contact[last'.contact_id])]_vars

-----------------------------------------------------------------------------
(* C26 *)

\* the last run was sync_fields_to_sprawy and none of its CRM calls failed
MirrorOneRan == last.op = "sync_fields_to_sprawy" /\ last.fault = 0

\* the contact of the last run: the one supplied, otherwise the one the Sprawy had
ResolvedContact ==
    IF last'.contact_id # NoContact THEN last'.contact_id
    ELSE parents[last'.item_id].contactId

\* the updates the last run issued
MirrorUpdates == SelectSeq(last'.run.calls, LAMBDA c : c.method = "update_item")

\* the value of the mirrored field g computed from the contact before the run
ComputedValue(g) ==
    passports.contact[ResolvedContact]
        [FIELD_MAPPINGS[CHOOSE i \in 1..Len(FIELD_MAPPINGS) :
                            FIELD_MAPPINGS[i].sprawy_field = g].contact_field]

\* the mirrored fields of the Sprawy that differ from the computed values
Differing == {g \in MirrorFields : passports.sprawy[last'.item_id][g] # ComputedValue(g)}

\* C26: sync_fields_to_sprawy, none of its CRM calls failing, takes the contact
\* supplied and otherwise the contact of the Sprawy; with no contact at all it
\* updates nothing; when every mapped field of the Sprawy equals the value computed
\* from the contact it issues no update and returns already_synced; otherwise it
\* issues exactly one update, of that Sprawy, carrying exactly the differing fields
\* with their computed values, and returns synced
C26_MirrorOneDiff ==
    [][MirrorOneRan' =>
          IF ResolvedContact = NoContact
          THEN /\ MirrorUpdates = <<>>
               /\ last'.run.result.action = "skipped"
          ELSE /\ \E i \in 1..Len(last'.run.calls) :
                     /\ last'.run.calls[i].method = "get_contact"
                     /\ last'.run.calls[i].id = ResolvedContact
               /\ IF Differing = {}
                  THEN /\ MirrorUpdates = <<>>
                       /\ last'.run.result.action = "already_synced"
                       /\ passports' = passports
                  ELSE /\ Len(MirrorUpdates) = 1
                       /\ MirrorUpdates[1].entity_type_id = SPA_SPRAWY
                       /\ MirrorUpdates[1].id = last'.item_id
                       /\ DOMAIN MirrorUpdates[1].fields = Differing
                       /\ \A g \in Differing :
                             MirrorUpdates[1].fields[g] = ComputedValue(g)
                       /\ last'.run.result.action = "synced"]_vars

\* sync_fields_to_sprawy, given no contact, has taken the contact of the Sprawy and
\* updated one of the two mirrored fields, the other being current already
C26_Witness ==
    /\ MirrorOneRan
    /\ last.contact_id = NoContact
    /\ last.run.result.action = "synced"
    /\ \E i \in 1..Len(last.run.calls) :
          /\ last.run.calls[i].method = "update_item"
          /\ Cardinality(DOMAIN last.run.calls[i].fields) = 1

\* sync_fields_to_sprawy has found a Sprawy current and left it alone
C26_WitnessSynced ==
    /\ MirrorOneRan
    /\ last.run.result.action = "already_synced"

-----------------------------------------------------------------------------
(* SpecList: the CRM answers crm.item.list page by page; the services list the
   children and the Sprawy of a contact through BitrixAPI.list_items *)

\* the number of records on a page of crm.item.list
PageSize == 1

\* the CRM's answer to crm.item.list with the offset start, records being the
\* matching records in the CRM's order: a page of items, and the offset of the next
\* page when there is one (0: the answer carries no 'next')
crm_item_list(records, start) ==
    [items |-> SubSeq(records, start + 1,
                      IF start + PageSize < Len(records) THEN start + PageSize
                      ELSE Len(records)),
     next |-> IF start + PageSize < Len(records) THEN start + PageSize ELSE 0]

\* BitrixAPI.list_items: one call with 'start': 0, and the items of its answer
list_items(records) == crm_item_list(records, 0).items

\* what a full sync through list_items leaves in last: the run, and the ids the two
\* listings returned
Listed(contact_id, r, podstawy_ids, sprawy_ids) ==
    [op |-> "sync_all_listed", contact_id |-> contact_id, item_id |-> 0, run |-> r,
     repeat |-> FALSE, podstawy_ids |-> podstawy_ids, sprawy_ids |-> sprawy_ids]

\* the worker runs sync_all_for_contact(contact_id) of the service, the CRM holding
\* the children in the order co
ReconcileAllListed(contact_id) ==
    \E co \in ChildOrders(contact_id) :
        \E podstawy_ids \in {list_items(co)} :
            \E sprawy_ids \in {list_items(listing(ascending(ParentIds),
                                                  list_sprawy(parents, contact_id)))} :
                \E r \in {sync_all_for_contact(eng, contact_id,
                                               child_items(children, podstawy_ids),
                                               sprawy_items(parents, sprawy_ids))} :
                    /\ parents' = apply_calls(parents, r.calls)
                    /\ last' = Listed(contact_id, r, podstawy_ids, sprawy_ids)
                    /\ UNCHANGED <<eng, children, passports, running>>

NextList ==
    \/ \E id \in ChildIds : \E rec \in ChildRecords(eng, id) :
          SettingUp /\ ChildPut(id, rec)
    \/ ReconcileAllListed(Subject)

SpecList == Init /\ [][NextList]_vars

-----------------------------------------------------------------------------
(* C27 *)

\* the elements of a sequence of ids
Listing(ids) == {ids[i] : i \in 1..Len(ids)}

\* C27: in a full sync of a contact the listing of the children returns every child
\* of the contact and the listing of the Sprawy, when it is made, every Sprawy of the
\* contact, however many pages the CRM splits them into; so every Sprawy of a contact
\* that has children ends with the ids of all the active children among its links
C27_ListsEveryPage ==
    last.op = "sync_all_listed" =>
        /\ Listing(last.podstawy_ids) = ChildrenOf(last.contact_id)
        /\ ChildrenOf(last.contact_id) # {} =>
              /\ Listing(last.sprawy_ids) = ParentsOf(last.contact_id)
              /\ \A p \in ParentsOf(last.contact_id) :
                    \A id \in ActiveChildrenOf(last.contact_id) :
                        \E i \in 1..Len(parents[p].uf[field_link(eng)]) :
                            parents[p].uf[field_link(eng)][i] = str(id)

-----------------------------------------------------------------------------
(* SpecUpdate: BitrixAPI.update_item builds the parameters of crm.item.update from
   the fields it is given, and the CRM applies them to the Sprawy *)

\* the name of a request parameter: fields[field] when index is NoIndex,
\* fields[field][index] otherwise (indices count from 0)
NoIndex == -1

Key(field, index) == [field |-> field, index |-> index]

\* isinstance(value, list): the array fields carry lists, the mirrored fields strings
is_list(key) == key \in ArrayFields

\* the names of the parameters update_item builds for the fields
param_keys(fields) ==
    {Key(k, NoIndex) : k \in {a \in DOMAIN fields : ~is_list(a) \/ Len(fields[a]) = 0}}
    \cup UNION {{Key(k, i - 1) : i \in 1..Len(fields[k])} :
                   k \in {a \in DOMAIN fields : is_list(a)}}

\* parameters that leave a field with an empty array out
update_item_params_skipping_empty(entity_type_id, item_id, fields) ==
    [key \in {Key("entityTypeId", NoIndex), Key("id", NoIndex)}
             \cup {q \in param_keys(fields) :
                      ~(is_list(q.field) /\ Len(fields[q.field]) = 0)} |->
        IF key.field = "entityTypeId" THEN entity_type_id
        ELSE IF key.field = "id" THEN item_id
        ELSE IF key.index = NoIndex THEN fields[key.field]
        ELSE fields[key.field][key.index + 1]]

\* BitrixAPI.update_item: the params dict handed to crm.item.update
update_item_params(entity_type_id, item_id, fields) ==
    [key \in {Key("entityTypeId", NoIndex), Key("id", NoIndex)}
             \cup param_keys(fields) |->
        IF key.field = "entityTypeId" THEN entity_type_id
        ELSE IF key.field = "id" THEN item_id
        ELSE IF key.index = NoIndex
        THEN (IF is_list(key.field) THEN "" ELSE fields[key.field])
        ELSE fields[key.field][key.index + 1]]

\* the fields crm.item.update finds in the parameters
fields_received(params) ==
    {key.field : key \in DOMAIN params} \ {"entityTypeId", "id"}

\* the value crm.item.update gives the field k: the elements sent by index, in the
\* order of the indices; an array field sent as one empty value becomes empty
value_received(params, k) ==
    IF Key(k, NoIndex) \in DOMAIN params
    THEN (IF is_list(k) THEN <<>> ELSE params[Key(k, NoIndex)])
    ELSE [i \in 1..Cardinality({key \in DOMAIN params : key.field = k}) |->
             params[Key(k, i - 1)]]

\* the fields crm.item.update writes, as a call on the Sprawy collection
received(params, among) ==
    Call("update_item", params[Key("entityTypeId", NoIndex)], params[Key("id", NoIndex)],
         NoContact,
         [k \in fields_received(params) \cap among |-> value_received(params, k)])

\* what a service may ask to write in a field: given or not, and the value
Given(v) == [given |-> TRUE, v |-> v]

NotGiven == [given |-> FALSE, v |-> <<>>]

LinkInputs ==
    {NotGiven, Given(<<>>), Given(<<str(9)>>), Given(<<str(10), str(9)>>),
     Given(<<str(9), str(10)>>)}

DateInputs == {NotGiven, Given(<<>>), Given(<<DateOf(9)>>), Given(<<DateOf(10), DateOf(9)>>)}

NoText == [given |-> FALSE, v |-> ""]

TextInputs(f) == {NoText, Given(""), Given(PassportOf(2, f))}

\* the fields dict made of the inputs
fields_of(l, d, n, x) ==
    [k \in {a \in {FIELD_SPRAWY_PODSTAWY, FIELD_SPRAWY_PODSTAWY_DATES,
                   FIELD_MAPPINGS[1].sprawy_field, FIELD_MAPPINGS[2].sprawy_field} :
               CASE a = FIELD_SPRAWY_PODSTAWY -> l.given
                 [] a = FIELD_SPRAWY_PODSTAWY_DATES -> d.given
                 [] a = FIELD_MAPPINGS[1].sprawy_field -> n.given
                 [] OTHER -> x.given} |->
        CASE k = FIELD_SPRAWY_PODSTAWY -> l.v
          [] k = FIELD_SPRAWY_PODSTAWY_DATES -> d.v
          [] k = FIELD_MAPPINGS[1].sprawy_field -> n.v
          [] OTHER -> x.v]

\* every Sprawy has stored links and dates and the passport of contact 1
InitUpdate ==
    /\ eng = "pobyt"
    /\ children = [id \in ChildIds |-> NoChild]
    /\ parents = [p \in ParentIds |-> [contactId |-> Subject, uf |-> StaleLinks("pobyt")]]
    /\ passports = Passports([c \in Contacts |-> FilledContact(c)],
                             [p \in ParentIds |-> MirroredPassport(Subject)])
    /\ last = Changed
    /\ running = Idle

\* what update_item leaves in last: the fields it was given and the params it sent
Updated(item_id, fields, params) ==
    [op |-> "update_item", contact_id |-> NoContact, item_id |-> item_id, run |-> NoRun,
     repeat |-> FALSE, fields |-> fields, params |-> params]

\* bitrix.update_item(SPA_SPRAWY, item_id, fields), and the CRM carrying it out
UpdateItem(item_id, fields) ==
    \E params \in {update_item_params(SPA_SPRAWY, item_id, fields)} :
        /\ parents' = update_item(parents, received(params, ArrayFields))
        /\ passports' = update_passport(passports, received(params, MirrorFields))
        /\ last' = Updated(item_id, fields, params)
        /\ UNCHANGED <<eng, children, running>>

NextUpdate ==
    \E item_id \in ParentIds, l \in LinkInputs, d \in DateInputs :
        \E n \in TextInputs(FIELD_MAPPINGS[1].contact_field) :
            \E x \in TextInputs(FIELD_MAPPINGS[2].contact_field) :
                SettingUp /\ UpdateItem(item_id, fields_of(l, d, n, x))

SpecUpdate == InitUpdate /\ [][NextUpdate]_vars

-----------------------------------------------------------------------------
(* C28 *)

\* update_item has been called
UpdateSent == last.op = "update_item"

\* the parameters sent for the field k
KeysOf(k) == {key \in DOMAIN last.params : key.field = k}

\* C28: update_item sends every field it is given and no other: an array field
\* whose value is empty as the one parameter fields[k] with the empty value, a
\* non-empty array as fields[k][0], fields[k][1], ... holding its elements in order,
\* any other field as fields[k] with its value; and the CRM then stores, for every
\* field given, the value given
C28_EveryFieldSent ==
    UpdateSent =>
        /\ {key.field : key \in DOMAIN last.params}
             = DOMAIN last.fields \cup {"entityTypeId", "id"}
        /\ \A k \in DOMAIN last.fields :
              IF k \in ArrayFields
              THEN IF Len(last.fields[k]) = 0
                   THEN /\ KeysOf(k) = {Key(k, NoIndex)}
                        /\ last.params[Key(k, NoIndex)] = ""
                        /\ parents[last.item_id].uf[k] = <<>>
                   ELSE /\ KeysOf(k) = {Key(k, i - 1) : i \in 1..Len(last.fields[k])}
                        /\ \A i \in 1..Len(last.fields[k]) :
                              last.params[Key(k, i - 1)] = last.fields[k][i]
                        /\ parents[last.item_id].uf[k] = last.fields[k]
              ELSE /\ KeysOf(k) = {Key(k, NoIndex)}
                   /\ last.params[Key(k, NoIndex)] = last.fields[k]
                   /\ passports.sprawy[last.item_id][k] = last.fields[k]

\* an update clearing the dates and setting two links in a new order has been sent
C28_Witness ==
    /\ UpdateSent
    /\ FIELD_SPRAWY_PODSTAWY \in DOMAIN last.fields
    /\ FIELD_SPRAWY_PODSTAWY_DATES \in DOMAIN last.fields
    /\ last.fields[FIELD_SPRAWY_PODSTAWY] = <<str(10), str(9)>>
    /\ last.fields[FIELD_SPRAWY_PODSTAWY_DATES] = <<>>
    /\ parents[last.item_id].uf[FIELD_SPRAWY_PODSTAWY_DATES] = <<>>

-----------------------------------------------------------------------------
(* C29 *)

\* the methods of the CRM client that only read
ReadingMethods == {"get_item", "get_contact", "list_items"}

\* C29: whatever message main handles and whichever CRM call fails, every CRM call
\* it makes either reads or is an update_item of a record of the Sprawy collection
\* that writes link, date or mirrored fields only; main creates no record, and
\* leaves the children and the contacts as they were
C29_OnlySprawyUpdated ==
    [][MainRan' =>
          /\ \A i \in 1..Len(last'.calls) :
                \/ last'.calls[i].method \in ReadingMethods
                \/ /\ last'.calls[i].method = "update_item"
                   /\ last'.calls[i].entity_type_id = SPA_SPRAWY
                   /\ last'.calls[i].id \in ParentIds
                   /\ DOMAIN last'.calls[i].fields \subseteq ArrayFields \cup MirrorFields
          /\ DOMAIN parents' = DOMAIN parents
          /\ \A p \in ParentIds : parents'[p].contactId = parents[p].contactId
          /\ children' = children
          /\ passports'.contact = passports.contact]_vars

\* main has handled a Sprawy event to the end, updating the links of a Sprawy
\* through an engine and the mirrored fields of a Sprawy through the mirror
C29_Witness ==
    /\ MainRan
    /\ last.outcome = "done"
    /\ \E i, j \in 1..Len(last.calls) :
          /\ last.calls[i].method = "update_item"
          /\ last.calls[j].method = "update_item"
          /\ DOMAIN last.calls[i].fields # {}
          /\ DOMAIN last.calls[i].fields \subseteq ArrayFields
          /\ DOMAIN last.calls[j].fields # {}
          /\ DOMAIN last.calls[j].fields \subseteq MirrorFields

-----------------------------------------------------------------------------
(* SpecRace: two invocations of the worker run at the same time, each in a service
   method of the engine; their CRM calls interleave. A method computes its updates
   from what its listings returned, and the CRM carries out one call at a time *)

Workers == {1, 2}

\* the other contact
Other == CHOOSE c \in Contacts : c # Subject

\* the child the invocation of worker w is about, and its contact
ChildOfWorker(w) == IF w = 1 THEN Trigger ELSE CHOOSE id \in ChildIds : id # Trigger

ContactOfWorker(w) == IF w = 1 THEN Subject ELSE Other

\* the service methods an event for the contact of worker w leads to: the full sync
\* of the contact, and the removal of a deleted child with or without the contact id
InvocationsOf(w) ==
    {Invocation(eng, "sync_all_for_contact", 0, ContactOfWorker(w)),
     Invocation(eng, "remove_from_sprawy", ChildOfWorker(w), ContactOfWorker(w)),
     Invocation(eng, "remove_from_sprawy", ChildOfWorker(w), NoContact)}

\* the run of the method of inv were it to find the Sprawy collection as ps
RunOf(inv, ps) ==
    IF inv.method = "sync_all_for_contact"
    THEN full_sync(eng, inv.contact_id, children, ps, ascending(DOMAIN children),
                   ascending(ParentIds))
    ELSE remove_from_sprawy(eng, inv.item_id, inv.contact_id, ps, ascending(ParentIds))

\* an invocation in progress: where it is ("start", "listed": the children are
\* listed, "updating", "done"), and the updates it has computed and not yet sent
Progress(pc, inv, queue) == [pc |-> pc, inv |-> inv, queue |-> queue]

\* an invocation that has its updates computed
Computed(inv, queue) ==
    Progress(IF queue = <<>> THEN "done" ELSE "updating", inv, queue)

\* the start of a race: the CRM as the two invocations found it
Raced(ps) ==
    [op |-> "race", contact_id |-> NoContact, item_id |-> 0, run |-> NoRun,
     repeat |-> FALSE, ps |-> ps]

InitRace ==
    /\ eng \in Engines
    /\ \E first \in {NoChild, Child(Subject, StageNEW, "")} :
          \E second \in {NoChild, Child(Other, StageNEW, ""), Child(Other, StageFail, "")} :
              children = [id \in ChildIds |-> IF id = Trigger THEN first ELSE second]
    /\ \E uf \in [ParentIds -> {NoLinks, StaleLinks(eng)}] :
          parents = [p \in ParentIds |->
                        [contactId |-> IF p = ScenarioSprawy THEN Subject ELSE Other,
                         uf |-> uf[p]]]
    /\ passports = UnmirroredPassports
    /\ last = Raced(parents)
    /\ \E inv \in [Workers -> UNION {InvocationsOf(w) : w \in Workers}] :
          /\ \A w \in Workers : inv[w] \in InvocationsOf(w)
          /\ running = [w \in Workers |-> Progress("start", inv[w], <<>>)]

\* the invocation of worker w makes its next CRM call
CrmCall(w) ==
    \E me \in {running[w]} :
        \E r \in {RunOf(me.inv, parents)} :
            /\ me.pc # "done"
            /\ running' =
                 [running EXCEPT ![w] =
                    IF me.pc = "updating" THEN Computed(me.inv, Tail(me.queue))
                    ELSE IF me.pc = "listed"
                    THEN Computed(me.inv, SubSeq(r.calls, 3, Len(r.calls)))
                    ELSE IF me.inv.method = "sync_all_for_contact" /\ Len(r.calls) > 1
                    THEN Progress("listed", me.inv, <<>>)
                    ELSE Computed(me.inv, Tail(r.calls))]
            /\ parents' = IF me.pc = "updating" THEN update_item(parents, Head(me.queue))
                          ELSE parents
            /\ UNCHANGED <<eng, children, passports, last>>

NextRace == \E w \in Workers : CrmCall(w)

SpecRace == InitRace /\ [][NextRace]_vars

-----------------------------------------------------------------------------
(* C30 *)

\* both invocations have ended
BothDone == \A w \in Workers : running[w].pc = "done"

\* the Sprawy collection after the invocation of worker v and then that of worker w,
\* run one after the other from the CRM the race started from
Sequential(v, w) ==
    LET between == apply_calls(last.ps, RunOf(running[v].inv, last.ps).calls)
    IN  apply_calls(between, RunOf(running[w].inv, between).calls)

\* C30: when an invocation for one contact and an invocation for another contact
\* have both ended, however their CRM calls interleaved, every Sprawy is as the two
\* invocations run one after the other leave it, in either order
C30_NoInteraction ==
    BothDone => /\ parents = Sequential(1, 2)
                /\ parents = Sequential(2, 1)

-----------------------------------------------------------------------------
(* SpecSame: two invocations of sync_all_for_contact for the same contact run at
   the same time while a CRM actor changes a child of the contact. Nothing in the
   service excludes one invocation from the other: each lists the children, lists
   the Sprawy, and then sends the updates it computed from what the listings
   returned *)

\* an invocation of sync_all_for_contact in progress: where it is, the children as
\* its listing returned them, and the updates it has computed and not yet sent
Syncing(pc, seen, queue) == [pc |-> pc, seen |-> seen, queue |-> queue]

\* an invocation that has listed the Sprawy and computed its updates
Compared(seen, queue) == Syncing(IF queue = <<>> THEN "done" ELSE "updating", seen, queue)

\* what the CRM's actor may make of a child of the contact during the race
RacedRecords == {NoChild, Child(Subject, StageNEW, ""), Child(Subject, StageFail, "")}

\* the race so far: whether the actor has changed a child since it started, and the
\* updates the CRM has carried out, in order, each with the worker that sent it
SameRace(changed, writes) ==
    [op |-> "race_same", contact_id |-> Subject, item_id |-> 0, run |-> NoRun,
     repeat |-> FALSE, changed |-> changed, writes |-> writes]

InitSame ==
    /\ eng \in Engines
    /\ children \in [ChildIds -> RacedRecords]
    /\ \E uf \in {NoLinks, StaleLinks(eng)} :
          parents = [p \in ParentIds |->
                        [contactId |-> IF p = ScenarioSprawy THEN Subject ELSE Other,
                         uf |-> uf]]
    /\ passports = UnmirroredPassports
    /\ last = SameRace(FALSE, <<>>)
    /\ running = [w \in Workers |-> Syncing("start", children, <<>>)]

\* the CRM's actor changes a child of the contact, once
ChildChange(id, rec) ==
    /\ ~last.changed
    /\ children[id] # rec
    /\ children' = [children EXCEPT ![id] = rec]
    /\ last' = SameRace(TRUE, last.writes)
    /\ UNCHANGED <<eng, parents, passports, running>>

\* the run of sync_all_for_contact that has seen the children as seen and finds the
\* Sprawy collection as ps
RunSeen(seen, ps) ==
    full_sync(eng, Subject, seen, ps, ascending(DOMAIN seen), ascending(ParentIds))

\* the invocation of worker w makes its next CRM call: it lists the children, or
\* lists the Sprawy and compares, or sends the next update
SyncCall(w) ==
    \E me \in {running[w]} :
        /\ me.pc # "done"
        /\ running' =
             [running EXCEPT ![w] =
                IF me.pc = "updating" THEN Compared(me.seen, Tail(me.queue))
                ELSE IF me.pc = "listed"
                THEN the({Compared(me.seen, SubSeq(r.calls, 3, Len(r.calls))) :
                             r \in {RunSeen(me.seen, parents)}})
                ELSE IF Len(RunSeen(children, parents).calls) > 1
                THEN Syncing("listed", children, <<>>)
                ELSE Compared(children, <<>>)]
        /\ parents' = IF me.pc = "updating" THEN update_item(parents, Head(me.queue))
                      ELSE parents
        /\ last' = IF me.pc = "updating"
                   THEN SameRace(last.changed,
                                 Append(last.writes,
                                        [by |-> w, seen |-> me.seen, call |-> Head(me.queue)]))
                   ELSE last
        /\ UNCHANGED <<eng, children, passports>>

NextSame ==
    \/ \E w \in Workers : SyncCall(w)
    \/ \E id \in ChildIds, rec \in RacedRecords : ChildChange(id, rec)

SpecSame == InitSame /\ [][NextSame]_vars

-----------------------------------------------------------------------------
(* C31 *)

\* both invocations of the race have ended
SameDone == \A w \in Workers : running[w].pc = "done"

\* the active children of contact c among the children cs
ActiveIn(cs, c) ==
    {id \in DOMAIN cs : cs[id].exists /\ cs[id].contactId = c /\ ~IsTerminal(cs[id].stageId)}

\* the sorted ids of the active children of the contact among cs
CanonicalLinks(cs) ==
    CHOOSE links \in {s \in UNION {[1..n -> {str(id) : id \in DOMAIN cs}] :
                                      n \in 0..Cardinality(DOMAIN cs)} : TRUE} :
        IsSortedIds(links, ActiveIn(cs, Subject))

\* the writes of the race to the link field of Sprawy p
LinkWrites(p) ==
    SelectSeq(last.writes,
              LAMBDA x : x.call.id = p /\ field_link(eng) \in DOMAIN x.call.fields)

\* C31: nothing orders two runs of sync_all_for_contact for one contact: every
\* update a run sends carries the target it computed from the children its own
\* listing returned, whatever has changed since, and the CRM keeps the update it
\* received last; so when both runs have ended a Sprawy written in the race holds
\* the links of the last write, which are the canonical target of what that writer
\* saw and not necessarily of the children as they are
C31_LastWriteWins ==
    last.op = "race_same" =>
        /\ \A i \in 1..Len(last.writes) :
              /\ last.writes[i].call.id \in ParentsOf(Subject)
              /\ field_link(eng) \in DOMAIN last.writes[i].call.fields =>
                    last.writes[i].call.fields[field_link(eng)]
                        = CanonicalLinks(last.writes[i].seen)
        /\ \A p \in ParentsOf(Subject) :
              LinkWrites(p) # <<>> =>
                  parents[p].uf[field_link(eng)]
                      = LinkWrites(p)[Len(LinkWrites(p))].call.fields[field_link(eng)]

\* both runs have ended; one listed the children before the actor's change and the
\* other after it; the later one wrote the canonical target of the children as they
\* are to a Sprawy, and the earlier one then overwrote it with the target of the
\* children as they were: the Sprawy differs from the canonical target
C31_Witness ==
    /\ last.op = "race_same"
    /\ SameDone
    /\ last.changed
    /\ ActiveIn(children, Subject) # {}
    /\ \E p \in ParentsOf(Subject) :
          /\ parents[p].uf[field_link(eng)] # CanonicalLinks(children)
          /\ \E i, j \in 1..Len(LinkWrites(p)) :
                /\ i < j
                /\ LinkWrites(p)[i].by # LinkWrites(p)[j].by
                /\ LinkWrites(p)[i].call.fields[field_link(eng)] = CanonicalLinks(children)
                /\ j = Len(LinkWrites(p))

-----------------------------------------------------------------------------
\* Link arrays as the CRM stores them: an element is a number or a string, and every
\* service reads a link array through [str(x) for x in current_links].

\* str(x) of a stored link element taken for a float: 9 reads as "9.0"
str_x_of_float(x) == IF x.t = "num" THEN str(x.n) \o <<".", "0">> ELSE x.s

\* str(x) of a stored link element: the decimal digits of a number, a string unchanged
str_x(x) == IF x.t = "num" THEN str(x.n) ELSE x.s

\* current_links = [str(x) for x in current_links]
current_links_read(current_links) ==
    [i \in 1..Len(current_links) |-> str_x(current_links[i])]

\* the Sprawy collection as engine e reads it: its own link array in string form
sprawy_read(e, ps) ==
    [p \in DOMAIN ps |->
        [ps[p] EXCEPT !.uf = [k \in ArrayFields |->
            IF k = field_link(e) THEN current_links_read(@[k]) ELSE @[k]]]]

\* the link array of an update as the CRM stores it: the strings that were sent
links_stored(e, call) ==
    [call EXCEPT !.fields = [k \in DOMAIN call.fields |->
        IF k = field_link(e)
        THEN [i \in 1..Len(call.fields[k]) |-> JStr(call.fields[k][i])]
        ELSE call.fields[k]]]

RECURSIVE apply_stored(_, _, _)
\* the stored Sprawy collection after the update calls of a run of engine e, in order
apply_stored(e, ps, calls) ==
    IF calls = <<>> THEN ps
    ELSE apply_stored(e,
            IF Head(calls).method = "update_item"
            THEN update_item(ps, links_stored(e, Head(calls))) ELSE ps,
            Tail(calls))

\* the forms in which the CRM may hold the id of a child
StoredForms(id) == {JNum(id), JStr(str(id))}

\* the link arrays a Sprawy may hold: up to two ids, each as a number or as a string
StoredLinks ==
    {<<>>} \cup {<<x>> : x \in UNION {StoredForms(id) : id \in ChildIds}}
           \cup {<<x, y>> : x \in UNION {StoredForms(id) : id \in ChildIds},
                            y \in UNION {StoredForms(id) : id \in ChildIds}}

\* the last service call on stored links, with the Sprawy collection it found
Stored(op, item_id, run, before) ==
    [op |-> op, contact_id |-> Subject, item_id |-> item_id, run |-> run,
     repeat |-> FALSE, before |-> before]

InitIds ==
    /\ eng \in Engines
    /\ children \in [ChildIds -> RacedRecords]
    /\ \E links \in StoredLinks :
          parents = [p \in ParentIds |->
                        [contactId |-> IF p = ScenarioSprawy THEN Subject ELSE NoContact,
                         uf |-> [k \in ArrayFields |->
                                    IF p = ScenarioSprawy /\ k = field_link(eng)
                                    THEN links ELSE <<>>]]]
    /\ passports = UnmirroredPassports
    /\ last = Stored("stored", 0, NoRun, parents)
    /\ running = Idle

\* sync_all_for_contact of the Subject on the stored links
ReconcileAllStored ==
    \E co \in ChildOrders(Subject) :
        LET r == full_sync(eng, Subject, children, sprawy_read(eng, parents), co,
                           ascending(ParentIds))
        IN  /\ parents' = apply_stored(eng, parents, r.calls)
            /\ last' = Stored("sync_all", 0, r, parents)
            /\ UNCHANGED <<eng, children, passports, running>>

\* remove_*_from_sprawy(id, Subject) on the stored links
RemoveStored(id) ==
    LET r == remove_from_sprawy(eng, id, Subject, sprawy_read(eng, parents),
                                ascending(ParentIds))
    IN  /\ parents' = apply_stored(eng, parents, r.calls)
        /\ last' = Stored("remove", id, r, parents)
        /\ UNCHANGED <<eng, children, passports, running>>

NextIds ==
    \/ ReconcileAllStored
    \/ \E id \in ChildIds : RemoveStored(id)

SpecIds == InitIds /\ [][NextIds]_vars

\* the child id a stored link element denotes
IdOf(x) == IF x.t = "num" THEN x.n ELSE IntOfDigits(x.s)

\* the stored array names exactly the ids of S, once each, in the order of their strings
DenotesTarget(links, S) ==
    /\ Len(links) = Cardinality(S)
    /\ {IdOf(links[i]) : i \in 1..Len(links)} = S
    /\ \A i, j \in 1..Len(links) : i < j => StrLess(str(IdOf(links[i])), str(IdOf(links[j])))

\* the update calls the last run issued for Sprawy p
StoredUpdates(p) ==
    SelectSeq(last.run.calls, LAMBDA c : c.method = "update_item" /\ c.id = p)

\* some element of the array the Sprawy held is a number
HeldNumber(p) ==
    \E i \in 1..Len(last.before[p].uf[field_link(eng)]) :
        last.before[p].uf[field_link(eng)][i].t = "num"

\* C32: child ids are compared in string form. A Sprawy whose stored link array names the
\* active children of its contact in target order, as numbers or as strings, gets no
\* update from sync_all_for_contact; remove_*_from_sprawy of a child id the array holds in
\* either form issues one update whose link array is the held ids without that id.
C32_CanonicalIds ==
    /\ last.op = "sync_all" /\ ActiveIn(children, Subject) # {}
       => \A p \in ParentIds :
             parents[p].contactId = Subject
             /\ DenotesTarget(last.before[p].uf[field_link(eng)], ActiveIn(children, Subject))
             => StoredUpdates(p) = <<>> /\ parents[p] = last.before[p]
    /\ last.op = "remove"
       => \A p \in ParentIds :
             LET held == last.before[p].uf[field_link(eng)]
             IN  parents[p].contactId = Subject
                 /\ (\E i \in 1..Len(held) : IdOf(held[i]) = last.item_id)
                 => /\ Len(StoredUpdates(p)) = 1
                    /\ StoredUpdates(p)[1].fields[field_link(eng)]
                         = SelectSeq([i \in 1..Len(held) |-> str(IdOf(held[i]))],
                                     LAMBDA s : s # str(last.item_id))
                    /\ \A i \in 1..Len(parents[p].uf[field_link(eng)]) :
                          IdOf(parents[p].uf[field_link(eng)][i]) # last.item_id

\* sync_all_for_contact left alone a Sprawy holding both active ids as numbers
C32_Witness ==
    /\ last.op = "sync_all"
    /\ Cardinality(ActiveIn(children, Subject)) = 2
    /\ DenotesTarget(last.before[ScenarioSprawy].uf[field_link(eng)],
                     ActiveIn(children, Subject))
    /\ \A i \in 1..2 : last.before[ScenarioSprawy].uf[field_link(eng)][i].t = "num"
    /\ StoredUpdates(ScenarioSprawy) = <<>>

\* remove_*_from_sprawy took out an id the Sprawy held as a number
C32_WitnessRemove ==
    /\ last.op = "remove"
    /\ \E i \in 1..Len(last.before[ScenarioSprawy].uf[field_link(eng)]) :
          /\ last.before[ScenarioSprawy].uf[field_link(eng)][i] = JNum(last.item_id)
    /\ Len(StoredUpdates(ScenarioSprawy)) = 1

-----------------------------------------------------------------------------
\* the single-item sync was handed a contact id
SuppliedContact == last.op = "sync_one" /\ last.contact_id # NoContact

\* C33: the single-item sync fetches the child only to resolve the contact id: when a
\* contact id is supplied its run holds no get_item call, and it completes the full sync
\* of that contact (it does not raise) even when the child record cannot be fetched.
C33_NoFetchWhenSupplied ==
    SuppliedContact
    => /\ \A i \in 1..Len(last.run.calls) : last.run.calls[i].method # "get_item"
       /\ last.run.result.action # "raised"

-----------------------------------------------------------------------------
\* the update calls of the last run of a mirror method
MirrorUpdateCalls ==
    {i \in 1..Len(last.run.calls) : last.run.calls[i].method = "update_item"}

\* C34: with the derived title disabled, no update issued by sync_fields_to_sprawy or by
\* sync_contact_to_all_sprawy carries the key title: every update carries mapped fields
\* only, and at least one of them.
C34_NoTitleWritten ==
    last.op \in {"sync_fields_to_sprawy", "sync_contact_to_all_sprawy"}
    => \A i \in MirrorUpdateCalls :
          /\ "title" \notin DOMAIN last.run.calls[i].fields
          /\ DOMAIN last.run.calls[i].fields \subseteq MirrorFields
          /\ DOMAIN last.run.calls[i].fields # {}

\* sync_contact_to_all_sprawy updated a Sprawy whose hand-written title is not the
\* derived one
C34_Witness ==
    /\ last.op = "sync_contact_to_all_sprawy"
    /\ \E i \in MirrorUpdateCalls :
          sprawy_title_of(last.run.calls[i].id)
            # "DARAI BISHNU LAL * Sprawa nr. " \o ToString(last.run.calls[i].id)

-----------------------------------------------------------------------------
\* the link arrays the last run wrote: the update calls that carry the link field
LinkUpdates ==
    {i \in 1..Len(last.run.calls) :
        /\ last.run.calls[i].method = "update_item"
        /\ field_link(eng) \in DOMAIN last.run.calls[i].fields}

\* C35: whenever the full sync or the single-item sync (with or without a contact id)
\* writes the link array of a Sprawy, every id in the written array is a child of the
\* engine's collection that is active now and belongs to the contact of that Sprawy.
C35_LinkMembership ==
    last.op \in {"sync_all", "sync_one"}
    => \A i \in LinkUpdates :
          LET call == last.run.calls[i]
              written == call.fields[field_link(eng)]
          IN  \A k \in 1..Len(written) :
                 \E c \in ActiveIn(children, parents[call.id].contactId) :
                    written[k] = str(c)

-----------------------------------------------------------------------------
(* SpecHook: the HTTP webhook handler parses a request, validates it and publishes *)
(* a message; the worker then handles the published message                        *)

\* a or b of Python on two request values
first_truthy(a, b) == IF truthy(a) THEN a ELSE b

ONCRMCONTACT == <<"O","N","C","R","M","C","O","N","T","A","C","T">>

ADD == <<"A", "D", "D">>

ContactUPDATE == ONCRMCONTACT \o <<"U","P","D","A","T","E">>

\* the parameters of a request the parser reads: the query parameters event, id,
\* contact_id, entity_type_id and the form fields event, data[FIELDS][ID],
\* data[FIELDS][CONTACT_ID]
Request(event, id, contact_id, entity_type_id, form_event, form_id, form_contact_id) ==
    [event |-> event, id |-> id, contact_id |-> contact_id,
     entity_type_id |-> entity_type_id, form_event |-> form_event, form_id |-> form_id,
     form_contact_id |-> form_contact_id]

\* parse_bitrix_webhook: the values found, then the contact / SPA defaults
parse_bitrix_webhook(request) ==
    LET id == first_truthy(request.id, request.form_id)
        contact_id == first_truthy(request.contact_id, request.form_contact_id)
        bitrix_event == IF truthy(request.form_event) THEN request.form_event.s ELSE <<>>
        bitrix_event_upper == upper(bitrix_event)
    IN  IF contains(bitrix_event_upper, ONCRMCONTACT)
        THEN Message("object",
                     IF contains(bitrix_event_upper, ADD) THEN "contact_created"
                     ELSE IF contains(bitrix_event_upper, DELETE) THEN "contact_deleted"
                     ELSE "contact_updated",
                     id,
                     IF truthy(id) /\ ~truthy(contact_id) THEN id ELSE contact_id,
                     JStr(CONTACT), TRUE, bitrix_event)
        ELSE Message("object",
                     IF request.event # NoEvent THEN request.event
                     ELSE IF contains(bitrix_event_upper, ADD) THEN "sprawy_created"
                     ELSE IF contains(bitrix_event_upper, DELETE) THEN "sprawy_deleted"
                     ELSE "sprawy_updated",
                     id, contact_id,
                     IF truthy(request.entity_type_id) THEN request.entity_type_id
                     ELSE JStr(str(SPA_SPRAWY)),
                     FALSE, bitrix_event)

\* the checks under "# Validate" of the HTTP handler: the HTTP status it answers
http_status(parsed) ==
    IF parsed.is_contact_event
    THEN (IF ~truthy(parsed.contact_id) THEN 400 ELSE 200)
    ELSE IF ~truthy(parsed.id) /\ parsed.event # "sync_all" THEN 400
    ELSE IF parsed.event = "sync_all" /\ ~truthy(parsed.contact_id) THEN 400
    ELSE 200

\* the requests Bitrix24 and the automation rules send
Requests ==
    {Request(ev, id, c, et, fe, fid, fc) :
        ev \in {NoEvent, "sync_all", "podstawy_updated"},
        id \in {JNull, JStr(str(Trigger)), JStr(str(0))},
        c \in {JNull, JStr(str(Subject))},
        et \in {JNull, JStr(str(SPA_PODSTAWY_POBYTU))},
        fe \in {JNull, JStr(ItemUPDATE), JStr(ItemDELETE), JStr(ContactUPDATE)},
        fid \in {JNull, JStr(str(Trigger))},
        fc \in {JNull, JStr(str(Subject))}}

\* the last step of the pipeline: the request, the status answered, the message
\* published and what the worker made of it
Hooked(op, request, status, msg, outcome, reason, invocations) ==
    [op |-> op, contact_id |-> NoContact, item_id |-> 0, run |-> NoRun, repeat |-> FALSE,
     request |-> request, status |-> status, msg |-> msg, outcome |-> outcome,
     reason |-> reason, invocations |-> invocations]

InitHook ==
    /\ eng \in Engines
    /\ \E rec \in {NoChild, Child(Subject, StageNEW,
                                  IF eng \in DatedEngines THEN DateOf(Trigger) ELSE "")} :
          children = [id \in ChildIds |-> IF id = Trigger THEN rec ELSE NoChild]
    /\ parents = [p \in ParentIds |-> [contactId |-> Subject, uf |-> StaleLinks(eng)]]
    /\ passports = UnmirroredPassports
    /\ \E request \in Requests :
          last = Hooked("request", request, 0, parse_bitrix_webhook(request), "", "", <<>>)
    /\ running = Idle

\* main(request) of the HTTP handler: answer 400, or publish the message and answer 200
Webhook ==
    /\ last.op = "request"
    /\ last' = Hooked("webhook", last.request,
                      http_status(parse_bitrix_webhook(last.request)),
                      parse_bitrix_webhook(last.request), "", "", <<>>)
    /\ UNCHANGED <<eng, children, parents, passports, running>>

\* the worker handles the message the HTTP handler published
Deliver ==
    /\ last.op = "webhook" /\ last.status = 200
    /\ \E h \in {main(last.msg, 0, children, parents, passports)} :
          /\ parents' = h.ps
          /\ passports' = h.pp
          /\ last' = Hooked("delivered", last.request, 200, last.msg, h.outcome, h.reason,
                            h.invocations)
    /\ UNCHANGED <<eng, children, running>>

NextHook == Webhook \/ Deliver

SpecHook == InitHook /\ [][NextHook]_vars

\* C36: every message the HTTP handler publishes (status 200) passes the validation of
\* the worker: the worker does not reject it for a missing item id or a missing
\* contact id.
C36_PublishedPassesValidation ==
    last.op = "delivered"
    => ~(/\ last.outcome = "rejected"
         /\ last.reason \in {"Missing item_id", "sync_all requires contact_id"})

-----------------------------------------------------------------------------
(* SpecOrder: the four routines of the total sweep of a Sprawy event (the three   *)
(* full syncs and the mirror of the passport fields) run once each, in any order; *)
(* every engine's collection holds the children                                   *)

\* the routines of the total sweep, in the order main runs them
SweepOrder == <<"pobyt", "praca", "procesy", "contact">>

\* the routine r of the sweep of Sprawy ScenarioSprawy of the Subject on the CRM
sweep_run(r, cs, ps, pp) ==
    IF r = "contact" THEN sync_fields_to_sprawy(ScenarioSprawy, Subject, ps, pp, 0)
    ELSE full_sync(r, Subject, cs, ps, ascending(DOMAIN cs), ascending(ParentIds))

RECURSIVE in_order(_, _, _, _)
\* the Sprawy and their mirrored fields after the routines of order have run
in_order(order, cs, ps, pp) ==
    IF order = <<>> THEN [ps |-> ps, pp |-> pp]
    ELSE LET run == sweep_run(Head(order), cs, ps, pp)
         IN  in_order(Tail(order), cs, apply_calls(ps, run.calls),
                      apply_passport_calls(pp, run.calls))

\* the routines that have run, in order, the calls of the last one, and the CRM the
\* sweep started on
Swept(order, calls, ps, pp) ==
    [op |-> "sweep", contact_id |-> Subject, item_id |-> ScenarioSprawy, run |-> NoRun,
     repeat |-> FALSE, order |-> order, calls |-> calls, ps |-> ps, pp |-> pp]

InitOrder ==
    /\ eng \in Engines
    /\ children \in [ChildIds -> RacedRecords]
    /\ \E uf \in {NoLinks, StaleLinks(eng)} :
          parents = [p \in ParentIds |-> [contactId |-> Subject, uf |-> uf]]
    /\ passports \in {UnmirroredPassports,
                      Passports([c \in Contacts |-> FilledContact(c)],
                                [p \in ParentIds |-> MirroredPassport(Subject)])}
    /\ last = Swept(<<>>, <<>>, parents, passports)
    /\ running = Idle

\* main runs the routine r of the sweep
RunRoutine(r) ==
    /\ r \notin Elems(last.order)
    /\ \E run \in {sweep_run(r, children, parents, passports)} :
          /\ parents' = apply_calls(parents, run.calls)
          /\ passports' = apply_passport_calls(passports, run.calls)
          /\ last' = Swept(Append(last.order, r), run.calls, last.ps, last.pp)
    /\ UNCHANGED <<eng, children, running>>

NextOrder == \E r \in Elems(SweepOrder) : RunRoutine(r)

SpecOrder == InitOrder /\ [][NextOrder]_vars

\* the Sprawy fields the specification gives routine r to write
OwnFields(r) ==
    CASE r = "pobyt"   -> {FIELD_SPRAWY_PODSTAWY, FIELD_SPRAWY_PODSTAWY_DATES}
      [] r = "praca"   -> {FIELD_SPRAWY_PRACA, field_praca_dates}
      [] r = "procesy" -> {FIELD_SPRAWY_PROCESY}
      [] r = "contact" -> MirrorFields

\* every routine of the sweep has run
SweepDone == last.op = "sweep" /\ Len(last.order) = Len(SweepOrder)

\* C37: the three engines and the mirror write pairwise disjoint Sprawy fields: every
\* update of a routine carries fields of that routine only, so no routine overwrites a
\* field another one set, and when the four routines have run, in whatever order, every
\* Sprawy is in the state the order of main leaves it in.
C37_DisjointFields ==
    /\ \A r, q \in Elems(SweepOrder) : r # q => OwnFields(r) \cap OwnFields(q) = {}
    /\ last.op = "sweep" /\ last.order # <<>>
       => \A i \in 1..Len(last.calls) :
             last.calls[i].method = "update_item"
             => DOMAIN last.calls[i].fields \subseteq OwnFields(last.order[Len(last.order)])
    /\ SweepDone
       => /\ parents = in_order(SweepOrder, children, last.ps, last.pp).ps
          /\ passports = in_order(SweepOrder, children, last.ps, last.pp).pp

\* the four routines ran in the reverse of main's order, the engines and the mirror
\* all having written
C37_Witness ==
    /\ SweepDone
    /\ last.order = <<"contact", "procesy", "praca", "pobyt">>
    /\ passports # last.pp
    /\ \A e \in Engines :
          parents[ScenarioSprawy].uf[field_link(e)] # last.ps[ScenarioSprawy].uf[field_link(e)]

-----------------------------------------------------------------------------
\* C38: the mirror is idempotent. When sync_contact_to_all_sprawy (or
\* sync_fields_to_sprawy) has run to its end and runs again with the same arguments,
\* nothing having changed in between, the second run issues no update call and reports
\* no Sprawy as updated: sync_fields_to_sprawy answers already_synced.
C38_MirrorIdempotent ==
    last.op \in {"sync_fields_to_sprawy", "sync_contact_to_all_sprawy"}
    /\ last.repeat /\ last.fault = 0
    => /\ \A i \in 1..Len(last.run.calls) : last.run.calls[i].method # "update_item"
       /\ last.run.result.updated = <<>>
       /\ last.op = "sync_fields_to_sprawy" => last.run.result.action = "already_synced"
       /\ last.op = "sync_contact_to_all_sprawy"
          => last.run.result.action = "sync_contact_fields"

\* sync_contact_to_all_sprawy ran again after a run that had updated two Sprawy
C38_Witness ==
    /\ last.op = "sync_contact_to_all_sprawy"
    /\ last.repeat /\ last.fault = 0
    /\ last.prior = 2

\* sync_fields_to_sprawy ran again after a run that had updated the Sprawy
C38_WitnessOne ==
    /\ last.op = "sync_fields_to_sprawy"
    /\ last.repeat /\ last.fault = 0
    /\ last.prior = 1

-----------------------------------------------------------------------------
\* the single-item sync ran without a contact id on a child that has no contact
NoContactAnywhere ==
    /\ last.op = "sync_one" /\ last.contact_id = NoContact
    /\ children[last.item_id].exists
    /\ children[last.item_id].contactId = NoContact

\* C39: the single-item sync called without a contact id on a child that has no contact
\* returns the outcome skipped and makes no list_items and no update_item call (its only
\* call is the get_item of the child), for every engine; the Sprawy stay as they were.
C39_SkippedWithoutContact ==
    NoContactAnywhere
    => /\ last.run.result.action = "skipped"
       /\ Len(last.run.calls) = 1
       /\ last.run.calls[1].method = "get_item"
       /\ last.run.calls[1].entity_type_id = spa_child(eng)

\* the single-item sync of Procesy skipped a child without contact
C39_Witness ==
    /\ NoContactAnywhere
    /\ eng = "procesy"
    /\ last.run.result.action = "skipped"

-----------------------------------------------------------------------------
(* SpecDaily: the daily job lists every Sprawy page by page, keeps the active ones *)
(* and publishes one message for each                                              *)

daily_FINAL_STAGES ==
    { <<"S","U","C","C","E","S","S">>, <<"F","A","I","L">>,
      <<"F","A","I","L","U","R","E">>, <<"L","O","S","E">>,
      <<"A","P","O","L","O","G","Y">> }

\* a classifier that compares the stage name as it is written
daily_is_active_stage_as_written(stage_id) ==
    IF stage_id.null \/ stage_id.str = <<>> THEN TRUE
    ELSE LET parts == split(stage_id.str, ":")
         IN  IF Len(parts) < 2 THEN TRUE
             ELSE parts[Len(parts)] \notin daily_FINAL_STAGES

\* is_active_stage of the daily job
daily_is_active_stage(stage_id) ==
    IF stage_id.null \/ stage_id.str = <<>> THEN TRUE
    ELSE LET parts == split(stage_id.str, ":")
         IN  IF Len(parts) < 2 THEN TRUE
             ELSE LET stage_name == upper(parts[Len(parts)])
                  IN  stage_name \notin daily_FINAL_STAGES

\* the Sprawy of the daily job
DailySprawy == {1, 2, 3}

\* a Sprawy record with its stage; one that was deleted
Sprawy(c, st) == [exists |-> TRUE, contactId |-> c, stageId |-> st]

NoSprawy == [exists |-> FALSE, contactId |-> NoContact, stageId |-> NoneStage]

\* the items of crm.item.list over all Sprawy, in the CRM's order (by id)
sprawy_records(ps) ==
    LET ids == SelectSeq(ascending(DOMAIN ps), LAMBDA p : ps[p].exists)
    IN  [i \in 1..Len(ids) |->
            [id |-> ids[i], stageId |-> ps[ids[i]].stageId, contactId |-> ps[ids[i]].contactId]]

DAILY_SYNC == <<"D","A","I","L","Y","_","S","Y","N","C">>

\* the message publish_sync_messages builds for an item
daily_message(item) ==
    Message("object", "daily_sync", JStr(str(item.id)),
            IF item.contactId # NoContact THEN JStr(str(item.contactId)) ELSE JNull,
            JStr(str(SPA_SPRAWY)), FALSE, DAILY_SYNC)

\* the daily job: where it is, the offset of the next request, the items fetched
Daily(pc, start, all_items) == [pc |-> pc, start |-> start, all_items |-> all_items]

\* what the daily job has published
Published(op, messages) ==
    [op |-> op, contact_id |-> NoContact, item_id |-> 0, run |-> NoRun, repeat |-> FALSE,
     published |-> messages]

InitDaily ==
    /\ eng = "pobyt"
    /\ children = [id \in ChildIds |-> NoChild]
    /\ parents \in [DailySprawy ->
                       {NoSprawy} \cup {Sprawy(c, st) :
                                           c \in {NoContact, Subject},
                                           st \in {StageNEW, StageFail, StageSUCCESS,
                                                   NoneStage}}]
    /\ passports = UnmirroredPassports
    /\ last = Published("daily_started", <<>>)
    /\ running = Daily("fetching", 0, <<>>)

\* one pass of the loop of get_all_active_sprawy: a request, and the cursor followed
GetPage ==
    /\ running.pc = "fetching"
    /\ \E data \in {crm_item_list(sprawy_records(parents), running.start)} :
          running' = IF data.next # 0
                     THEN Daily("fetching", data.next, running.all_items \o data.items)
                     ELSE Daily("fetched", 0, running.all_items \o data.items)
    /\ UNCHANGED <<eng, children, parents, passports, last>>

\* the filter of get_all_active_sprawy, then publish_sync_messages
PublishSyncMessages ==
    /\ running.pc = "fetched"
    /\ \E active_items \in {SelectSeq(running.all_items,
                                      LAMBDA item : daily_is_active_stage(item.stageId))} :
          last' = Published("daily_sync",
                            [i \in 1..Len(active_items) |-> daily_message(active_items[i])])
    /\ running' = Daily("done", 0, running.all_items)
    /\ UNCHANGED <<eng, children, parents, passports>>

NextDaily == GetPage \/ PublishSyncMessages

SpecDaily == InitDaily /\ [][NextDaily]_vars

\* the messages published for Sprawy p
MessagesFor(p) ==
    {i \in 1..Len(last.published) : IntOfDigits(last.published[i].id.s) = p}

====
